---- MODULE Spec2Model ----
(***************************************************************************)
(* Connection lifecycle of element-call: the useECConnectionState hook     *)
(* (doConnect, connectAndPublish, doFocusSwitch, the AbortHandle bag) and  *)
(* the focus resolution of rtcSessionHelpers (makePreferredLivekitFoci,    *)
(* enterRTCSession).                                                       *)
(***************************************************************************)
EXTENDS Integers, Sequences, FiniteSets, TLC

\* ------------------------------------------------------------------------
\* Bounds
\* ------------------------------------------------------------------------

\* connection attempts (doConnect or doFocusSwitch) one hook instance starts
MaxAttempts == 2

\* entries of the well-known rtc_foci array
MaxWellKnown == 2

\* syncMuteState calls of one device kind that are pending at a time
MaxSyncs == 1

\* presses of a mute button while the transport's toggles may fail
MaxIntentChanges == 2

\* presses of a mute button while the transport's toggles all succeed
MaxPresses == 11

\* the recursion limit of syncMuteState
MaxIterCount == 10

\* the sleep after a toggle that returned a publication, in ms
SleepMs == 100

\* the delay of the retry after a failed toggle, in ms
RetryMs == 1000

\* useLoadGroupCall: joinRoom is retried while attempt is below this
MAX_ATTEMPTS_FOR_INVITE_JOIN_FAILURE == 3

\* useLoadGroupCall: the wait before a retry, in ms
DELAY_MS_FOR_INVITE_JOIN_FAILURE == 3000

\* key, focus and blur events one useCallViewKeyboardShortcuts instance sees
MaxKeyEvents == 6

\* calls of Initializer.init() and Initializer.reset() together
MaxInitCalls == 4

\* changes of the active focus one useOpenIDSFU instance sees
MaxFocusChanges == 3

\* ------------------------------------------------------------------------
\* Errors
\* ------------------------------------------------------------------------

Err(cls, status) ==
  [cls |-> cls, status |-> status, cause |-> "none", causeStatus |-> 0]

NoError == Err("none", 0)

ConnectionError(status) == Err("ConnectionError", status)

InsufficientCapacityError == Err("InsufficientCapacityError", 0)

UnknownCallError(e) ==
  [cls |-> "UnknownCallError", status |-> 0, cause |-> e.cls,
   causeStatus |-> e.status]

MatrixRTCFocusMissingError == Err("MatrixRTCFocusMissingError", 0)

\* e instanceof ElementCallError
IsElementCallError(e) ==
  e.cls \in {"InsufficientCapacityError", "UnknownCallError",
             "MatrixRTCFocusMissingError", "ConnectionLostError"}

\* e instanceof Error (a thrown value may be anything in JavaScript)
IsError(e) == e.cls \notin {"none", "NonError"}

\* statuses LiveKit uses to signal exhausted capacity
CapacityStatuses == {503, 200, 429}

\* what room.connect may do: resolve (NoError) or reject with one of these
ConnectOutcomes ==
  {NoError, ConnectionError(503), ConnectionError(200), ConnectionError(429),
   ConnectionError(400), Err("ConnectionLostError", 0), Err("Error", 503),
   Err("NonError", 0)}

\* ------------------------------------------------------------------------
\* SFU configs
\* ------------------------------------------------------------------------

\* the prop is undefined; ref tells objects of equal content apart
Undef == [def |-> FALSE, url |-> "", jwt |-> "", ref |-> 0]

\* {} : an object with neither url nor jwt
EmptyObj == [def |-> TRUE, url |-> "", jwt |-> "", ref |-> 0]

ConfigA == [def |-> TRUE, url |-> "U1", jwt |-> "J1", ref |-> 1]
ConfigB == [def |-> TRUE, url |-> "U2", jwt |-> "J2", ref |-> 1]
ConfigBad == [def |-> TRUE, url |-> "", jwt |-> "J1", ref |-> 1]

\* another object with the url and jwt of ConfigA
ConfigA2 == [def |-> TRUE, url |-> "U1", jwt |-> "J1", ref |-> 2]

\* the values the sfuConfig prop takes
ConfigValues == {Undef, ConfigBad, ConfigA, ConfigA2, ConfigB}

\* the objects a first render or a first valid config brings; ConfigA2 is
\* only supplied while a valid config is current
FirstObjects == ConfigValues \ {ConfigA2}

sfuConfigValid(c) == c.url # "" /\ c.jwt # ""

sfuConfigEquals_ByReference(a, b) == a = b

sfuConfigEquals(a, b) ==
  IF ~a.def /\ ~b.def THEN TRUE
  ELSE IF ~a.def \/ ~b.def THEN FALSE
  ELSE a.jwt = b.jwt /\ a.url = b.url

\* Object.assign({}, sfuConfig): a fresh object with the same fields
ObjectAssign(c) == IF c.def THEN [c EXCEPT !.ref = 0] ELSE EmptyObj

\* the url and token room.connect is called with
ConnectArgs(c) == [url |-> c.url, jwt |-> c.jwt]

\* the room is connected to nothing
NoArgs == [url |-> "", jwt |-> ""]

\* ------------------------------------------------------------------------
\* State
\* ------------------------------------------------------------------------

VARIABLES
  mounted,           \* the component using the hook is mounted
  sfuConfig,         \* the sfuConfig prop of the last render
  currentSFUConfig,  \* currentSFUConfig.current
  abortHandlesBag,   \* abortHandlesBag.current: handles of pending doConnects
  aborted,           \* the AbortHandles whose aborted flag is set
  attempts,          \* the doConnect / doFocusSwitch promises started so far
  isSwitchingFocus,
  isInDoConnect,
  error,             \* the error last given to setError (thrown on render)
  connState,
  roomState,         \* livekitRoom.state
  roomCfg,           \* the url and token the room is connected with
  micPublished,      \* getTrackPublication(Track.Source.Microphone) exists
  screenShared,      \* videoTrackPublications holds a screen-share track
  fociPc,            \* position of enterRTCSession
  fociIn,            \* what the session, the well-known and the config hold
  preferredFoci,     \* the list makePreferredLivekitFoci builds
  fociErr,           \* the error enterRTCSession rejected with
  joinCalls,         \* calls of rtcSession.joinRoomSession, with their foci
  muteIntent,        \* muteStates.audio.enabled / muteStates.video.enabled
  buttonEnabled,     \* buttonEnabled.current
  devEnabled,        \* participant.isMicrophoneEnabled / isCameraEnabled
  muteUpdating,      \* audioMuteUpdating.current / videoMuteUpdating.current
  syncs,             \* the syncMuteState calls that have not returned yet
  intentChanges,     \* how often the user has pressed a mute button
  muteLog,           \* the fatal and stop errors the effect has logged
  openid,            \* useOpenIDSFU: focus, state and pending exchanges
  leave,             \* one leaveRTCSession call
  invite,            \* one joinRoomAfterInvite call
  ptt,               \* useCallViewKeyboardShortcuts: the spacebar hold
  initializer        \* the Initializer singleton

ctrlVars ==
  <<mounted, sfuConfig, currentSFUConfig, abortHandlesBag, aborted, attempts,
    isSwitchingFocus, isInDoConnect, error, connState, roomState, roomCfg,
    micPublished, screenShared>>

fociVars == <<fociPc, fociIn, preferredFoci, fociErr, joinCalls>>

muteVars ==
  <<muteIntent, buttonEnabled, devEnabled, muteUpdating, syncs, intentChanges,
    muteLog>>

auxVars == <<openid, leave, invite, ptt, initializer>>

vars == <<ctrlVars, fociVars, muteVars, auxVars>>

\* enum MuteDevice
Kinds == {"Microphone", "Camera"}

Slots == 1..MaxSyncs

\* a slot that holds no syncMuteState call
NoSync == [pc |-> "none", iterCount |-> 0, arg |-> FALSE, calls |-> 0,
           delay |-> 0]

\* the state of the hook's refs before the effect has ever run
MuteIdle ==
  /\ muteIntent = [k \in Kinds |-> FALSE]
  /\ buttonEnabled = [k \in Kinds |-> FALSE]
  /\ devEnabled = [k \in Kinds |-> FALSE]
  /\ muteUpdating = [k \in Kinds |-> FALSE]
  /\ syncs = [k \in Kinds |-> [n \in Slots |-> NoSync]]
  /\ intentChanges = 0
  /\ muteLog = {}

\* ------------------------------------------------------------------------
\* useECConnectionState
\* ------------------------------------------------------------------------

Indices == DOMAIN attempts

InFlight(i) == attempts[i].pc # "done"

\* new AbortHandle(): handle i belongs to attempt i; 0 is "no handle"
NewAttempt(kind, cfg, audio, handle, pc) ==
  [kind |-> kind, pc |-> pc, cfg |-> ObjectAssign(cfg), audioEnabled |-> audio,
   handle |-> handle, track |-> "none", connectCalls |-> 0,
   disconnectCalls |-> 0, connErr |-> NoError, connRes |-> "none",
   err |-> NoError, unmountPc |-> "none", log |-> <<>>, clones |-> 0,
   ssPublish |-> "none"]

\* AbortHandle.isAborted()
isAborted(h) == h \in aborted

\* mutant of AbortAll: abort() flips the flag
AbortAll_Toggle(bag, ab) == (ab \ bag) \cup (bag \ ab)

\* mutant of AbortAll: only the handle added last is aborted
AbortAll_OnlyLatest(bag, ab) ==
  ab \cup {h \in bag : \A g \in bag : g <= h}

\* bag.forEach((handle) => handle.abort())
AbortAll(bag, ab) == ab \cup bag

StopTrack_Never(t) == t

\* preCreatedAudioTrack?.stop()
StopTrack(t) == IF t = "live" THEN "stopped" ELSE t

\* mutant of ClassifyConnectError: the LiveKit Cloud status 429 is forgotten
ClassifyConnectError_No429(e) ==
  IF e.cls = "ConnectionError" /\ e.status \in {503, 200}
  THEN InsufficientCapacityError
  ELSE e

\* the catch (e) of connectAndPublish around room.connect
ClassifyConnectError(e) ==
  IF e.cls = "ConnectionError" /\ e.status \in CapacityStatuses
  THEN InsufficientCapacityError
  ELSE e

\* the .catch of the doConnect promise: setError
Surface(e, old) ==
  IF e = NoError THEN old
  ELSE IF IsElementCallError(e) THEN e
  ELSE IF IsError(e) THEN UnknownCallError(e)
  ELSE old

Observable_ConnectingFirst ==
  IF isInDoConnect THEN "connecting"
  ELSE IF isSwitchingFocus THEN "ec_switching_focus"
  ELSE connState

\* the value useECConnectionState returns
Observable ==
  IF isSwitchingFocus THEN "ec_switching_focus"
  ELSE IF isInDoConnect THEN "connecting"
  ELSE connState

\* onConnStateChanged, called while the listener is registered
ConnStateOn(state) == IF mounted THEN state ELSE connState
SwitchingOn(state) ==
  IF mounted /\ state = "connected" THEN FALSE ELSE isSwitchingFocus

FinishDoConnect_ThenOnly(i, r) ==
  /\ attempts' = [attempts EXCEPT ![i] = [r EXCEPT !.pc = "done"]]
  /\ error' = Surface(r.err, error)
  /\ abortHandlesBag' = IF r.err = NoError THEN abortHandlesBag \ {r.handle}
                        ELSE abortHandlesBag
  /\ isInDoConnect' = FALSE

\* doConnect returned or threw: the .catch and .finally of its promise
FinishDoConnect(i, r) ==
  /\ attempts' = [attempts EXCEPT ![i] = [r EXCEPT !.pc = "done"]]
  /\ error' = Surface(r.err, error)
  /\ abortHandlesBag' = abortHandlesBag \ {r.handle}
  /\ isInDoConnect' = FALSE

\* livekitRoom.connect(url, jwt) is called and pending
CallConnect(i, r) ==
  /\ attempts' = [attempts EXCEPT
                    ![i] = [r EXCEPT !.pc = "connect",
                                     !.connectCalls = @ + 1,
                                     !.log = Append(@, "connect")]]
  /\ roomState' = "connecting"
  /\ roomCfg' = NoArgs
  /\ connState' = ConnStateOn("connecting")

\* doConnect from "check again having awaited for the track to create" on
ConnectPhase(i, r) ==
  IF micPublished
  THEN /\ FinishDoConnect(i, [r EXCEPT !.track = StopTrack(@)])
       /\ UNCHANGED <<roomState, roomCfg, connState>>
  ELSE /\ CallConnect(i, r)
       /\ UNCHANGED <<error, abortHandlesBag, isInDoConnect>>

\* the config effect, branch "invalid to valid": doConnect up to createTracks
EffectInitialConnect(c, audio) ==
  /\ mounted /\ error = NoError
  /\ ~sfuConfigValid(currentSFUConfig) /\ sfuConfigValid(c)
  /\ Len(attempts) < MaxAttempts
  /\ LET i == Len(attempts) + 1
         n == NewAttempt("doConnect", c, audio, i, "createTracks")
         r == [n EXCEPT !.log = <<"createTracks">>]
     IN IF micPublished
        THEN /\ attempts' = Append(attempts, [n EXCEPT !.pc = "done"])
             /\ isInDoConnect' = FALSE
             /\ UNCHANGED abortHandlesBag
        ELSE /\ attempts' = Append(attempts, r)
             /\ isInDoConnect' = TRUE
             /\ abortHandlesBag' = abortHandlesBag \cup {i}
  /\ sfuConfig' = c
  /\ currentSFUConfig' = ObjectAssign(c)
  /\ UNCHANGED <<mounted, aborted, isSwitchingFocus, error, connState,
                 roomState, roomCfg, micPublished, screenShared>>
  /\ UNCHANGED <<fociVars, muteVars, auxVars>>

\* the screen-share tracks doFocusSwitch collects: a clone of each published
\* screen-share track, taken from the publications as they are on entry
\* the publications are read once the room is disconnected
CloneScreenshare_AfterDisconnect ==
  IF screenShared /\ roomState = "disconnected" THEN 1 ELSE 0

CloneScreenshare == IF screenShared THEN 1 ELSE 0

FocusSwitchStart_NoAwait(c) ==
  [NewAttempt("doFocusSwitch", c, FALSE, 0, "connect") EXCEPT
     !.clones = CloneScreenshare,
     !.disconnectCalls = 1,
     !.connectCalls = 1,
     !.log = (IF CloneScreenshare > 0 THEN <<"clone">> ELSE <<>>)
             \o <<"disconnect", "connect">>]

\* doFocusSwitch from its entry to the pending livekitRoom.disconnect()
FocusSwitchStart(c) ==
  [NewAttempt("doFocusSwitch", c, FALSE, 0, "fsDisconnect") EXCEPT
     !.clones = CloneScreenshare,
     !.disconnectCalls = 1,
     !.log = (IF CloneScreenshare > 0 THEN <<"clone">> ELSE <<>>)
             \o <<"disconnect">>]

\* the config effect, branch "valid to another valid": doFocusSwitch up to
\* the pending livekitRoom.disconnect(), which unpublishes the local tracks
EffectFocusSwitch(c) ==
  /\ mounted /\ error = NoError
  /\ sfuConfigValid(c) /\ sfuConfigValid(currentSFUConfig)
  /\ ~sfuConfigEquals(currentSFUConfig, c)
  /\ Len(attempts) < MaxAttempts
  /\ attempts' = Append(attempts, FocusSwitchStart(c))
  /\ isSwitchingFocus' = TRUE
  /\ roomState' = "disconnected"
  /\ roomCfg' = NoArgs
  /\ connState' = ConnStateOn("disconnected")
  /\ micPublished' = FALSE
  /\ screenShared' = FALSE
  /\ sfuConfig' = c
  /\ currentSFUConfig' = ObjectAssign(c)
  /\ UNCHANGED <<mounted, aborted, abortHandlesBag, isInDoConnect, error>>
  /\ UNCHANGED <<fociVars, muteVars, auxVars>>

\* the config effect when neither branch applies
EffectNoop(c) ==
  /\ mounted /\ error = NoError
  /\ ~(sfuConfigValid(c) /\ sfuConfigValid(currentSFUConfig)
       /\ ~sfuConfigEquals(currentSFUConfig, c))
  /\ ~(~sfuConfigValid(currentSFUConfig) /\ sfuConfigValid(c))
  /\ sfuConfig' = c
  /\ currentSFUConfig' = ObjectAssign(c)
  /\ UNCHANGED <<mounted, aborted, abortHandlesBag, attempts,
                 isSwitchingFocus, isInDoConnect, error, connState,
                 roomState, roomCfg, micPublished, screenShared>>
  /\ UNCHANGED <<fociVars, muteVars, auxVars>>

\* doConnect resumes from createTracks: out is "track" (one track), "empty"
\* (no track) or "reject"
CreateTracksSettle(i, out) ==
  /\ i \in Indices /\ attempts[i].pc = "createTracks"
  /\ LET a == attempts[i]
         r == [a EXCEPT !.track = IF out = "track" THEN "live" ELSE "none"]
     IN IF out # "reject" /\ isAborted(a.handle)
        THEN /\ FinishDoConnect(i, [r EXCEPT !.track = StopTrack(@)])
             /\ UNCHANGED <<roomState, roomCfg, connState>>
        ELSE IF ~a.audioEnabled
        THEN /\ attempts' = [attempts EXCEPT
                               ![i] = [r EXCEPT
                                         !.pc = "mute",
                                         !.log = IF r.track = "live"
                                                 THEN Append(@, "mute")
                                                 ELSE @]]
             /\ UNCHANGED <<error, abortHandlesBag, isInDoConnect, roomState,
                            roomCfg, connState>>
        ELSE ConnectPhase(i, r)
  /\ UNCHANGED <<mounted, sfuConfig, currentSFUConfig, aborted,
                 isSwitchingFocus, micPublished, screenShared>>
  /\ UNCHANGED <<fociVars, muteVars, auxVars>>

\* doConnect resumes from preCreatedAudioTrack?.mute(): only a real track's
\* mute() can reject
MuteSettle(i, ok) ==
  /\ i \in Indices /\ attempts[i].pc = "mute"
  /\ ok \/ attempts[i].track = "live"
  /\ LET a == attempts[i]
     IN IF ~ok
        THEN /\ FinishDoConnect(i, [a EXCEPT !.err = Err("Error", 0)])
             /\ UNCHANGED <<roomState, roomCfg, connState>>
        ELSE IF isAborted(a.handle)
        THEN /\ FinishDoConnect(i, [a EXCEPT !.track = StopTrack(@)])
             /\ UNCHANGED <<roomState, roomCfg, connState>>
        ELSE ConnectPhase(i, a)
  /\ UNCHANGED <<mounted, sfuConfig, currentSFUConfig, aborted,
                 isSwitchingFocus, micPublished, screenShared>>
  /\ UNCHANGED <<fociVars, muteVars, auxVars>>

\* doConnect after connectAndPublish returned: the abort check and the
\* forced disconnect, which also unpublishes the local tracks; rs is the
\* room state connectAndPublish left
AfterConnectAndPublish(i, r, rs, rc, published) ==
  IF isAborted(r.handle)
  THEN /\ FinishDoConnect(i, [r EXCEPT !.disconnectCalls = @ + 1,
                                       !.log = Append(@, "disconnect")])
       /\ roomState' = "disconnected"
       /\ roomCfg' = NoArgs
       /\ connState' = ConnStateOn("disconnected")
       /\ micPublished' = FALSE
       /\ screenShared' = FALSE
  ELSE /\ FinishDoConnect(i, r)
       /\ roomState' = rs
       /\ roomCfg' = rc
       /\ connState' = ConnStateOn(rs)
       /\ micPublished' = published
       /\ UNCHANGED screenShared

MicTrackArg_OmitMuted(a) == IF a.audioEnabled THEN a.track ELSE "none"

\* the micTrack doConnect hands to connectAndPublish
MicTrackArg(a) == a.track

\* room.connect of an initial attempt settles with e
ConnectSettle(i, e) ==
  /\ i \in Indices /\ attempts[i].pc = "connect"
  /\ attempts[i].kind = "doConnect"
  /\ LET a == attempts[i]
         r == [a EXCEPT !.connErr = e,
                        !.connRes = IF e = NoError THEN "ok" ELSE "fail"]
     IN IF e # NoError
        THEN /\ FinishDoConnect(i, [r EXCEPT !.err = ClassifyConnectError(e),
                                             !.track = StopTrack(@)])
             /\ roomState' = "disconnected"
             /\ roomCfg' = NoArgs
             /\ connState' = ConnStateOn("disconnected")
             /\ screenShared' = FALSE
             /\ UNCHANGED <<micPublished, isSwitchingFocus>>
        ELSE IF MicTrackArg(a) = "live"
        THEN /\ attempts' = [attempts EXCEPT
                               ![i] = [r EXCEPT
                                         !.pc = "publish",
                                         !.log = Append(@, "publish")]]
             /\ roomState' = "connected"
             /\ roomCfg' = ConnectArgs(a.cfg)
             /\ connState' = ConnStateOn("connected")
             /\ isSwitchingFocus' = SwitchingOn("connected")
             /\ UNCHANGED <<error, abortHandlesBag, isInDoConnect,
                            micPublished, screenShared>>
        ELSE /\ AfterConnectAndPublish(i, r, "connected",
                                       ConnectArgs(a.cfg), micPublished)
             /\ isSwitchingFocus' = SwitchingOn("connected")
  /\ UNCHANGED <<mounted, sfuConfig, currentSFUConfig, aborted>>
  /\ UNCHANGED <<fociVars, muteVars, auxVars>>

\* publishTrack(micTrack) of an initial attempt settles
PublishSettle(i, ok) ==
  /\ i \in Indices /\ attempts[i].pc = "publish"
  /\ LET a == attempts[i]
     IN IF ok
        THEN AfterConnectAndPublish(i, a, roomState, roomCfg, TRUE)
        ELSE /\ FinishDoConnect(i, [a EXCEPT !.err = Err("Error", 0),
                                             !.track = StopTrack(@)])
             /\ UNCHANGED <<roomState, roomCfg, connState, micPublished,
                            screenShared>>
  /\ UNCHANGED <<mounted, sfuConfig, currentSFUConfig, aborted,
                 isSwitchingFocus>>
  /\ UNCHANGED <<fociVars, muteVars, auxVars>>

\* doFocusSwitch resumes from livekitRoom.disconnect() and calls
\* connectAndPublish, which calls room.connect
FsDisconnectSettle(i) ==
  /\ i \in Indices /\ attempts[i].pc = "fsDisconnect"
  /\ CallConnect(i, [attempts[i] EXCEPT !.log = Append(@, "disconnected")])
  /\ isInDoConnect' = TRUE
  /\ UNCHANGED <<mounted, sfuConfig, currentSFUConfig, aborted,
                 abortHandlesBag, isSwitchingFocus, error, micPublished,
                 screenShared>>
  /\ UNCHANGED <<fociVars, muteVars, auxVars>>

\* room.connect of a focus switch settles with e; a failure is only logged;
\* on success publishTrack is called for the clones and not awaited
FsConnectSettle(i, e) ==
  /\ i \in Indices /\ attempts[i].pc = "connect"
  /\ attempts[i].kind = "doFocusSwitch"
  /\ attempts' = [attempts EXCEPT
                    ![i] = [@ EXCEPT
                              !.pc = "done",
                              !.connErr = e,
                              !.connRes = IF e = NoError THEN "ok"
                                          ELSE "fail",
                              !.err = ClassifyConnectError(e),
                              !.ssPublish =
                                 IF e = NoError /\ attempts[i].clones > 0
                                 THEN "pending" ELSE "none",
                              !.log =
                                 IF e = NoError /\ attempts[i].clones > 0
                                 THEN Append(@, "publishScreenshare")
                                 ELSE @]]
  /\ screenShared' = IF e = NoError THEN screenShared ELSE FALSE
  /\ isInDoConnect' = FALSE
  /\ LET s == IF e = NoError THEN "connected" ELSE "disconnected"
     IN /\ roomState' = s
        /\ roomCfg' = IF e = NoError THEN ConnectArgs(attempts[i].cfg)
                      ELSE NoArgs
        /\ connState' = ConnStateOn(s)
        /\ isSwitchingFocus' = SwitchingOn(s)
  /\ UNCHANGED <<mounted, sfuConfig, currentSFUConfig, aborted,
                 abortHandlesBag, error, micPublished>>
  /\ UNCHANGED <<fociVars, muteVars, auxVars>>

\* the .catch of a clone's publishTrack: logger.error, the error state
\* stays as it is
CatchScreensharePublish_Surface(old) ==
  Surface(Err("Error", 0), old)
CatchScreensharePublish(old) == old

\* a publishTrack of a carried screen-share clone settles; a rejection is
\* only logged
ScreenSharePublishSettle(i, ok) ==
  /\ i \in Indices /\ attempts[i].ssPublish = "pending"
  /\ ok => roomState = "connected"
  /\ attempts' = [attempts EXCEPT
                    ![i] = [@ EXCEPT !.ssPublish = IF ok THEN "ok"
                                                  ELSE "failed"]]
  /\ screenShared' = IF ok THEN TRUE ELSE screenShared
  /\ error' = IF ok THEN error ELSE CatchScreensharePublish(error)
  /\ UNCHANGED <<mounted, sfuConfig, currentSFUConfig, aborted,
                 abortHandlesBag, isSwitchingFocus, isInDoConnect,
                 connState, roomState, roomCfg, micPublished>>
  /\ UNCHANGED <<fociVars, muteVars, auxVars>>

\* the user starts sharing the screen: a screen-share publication appears
\* among localParticipant.videoTrackPublications
ScreenShareStart ==
  /\ mounted /\ roomState = "connected" /\ ~screenShared
  /\ screenShared' = TRUE
  /\ UNCHANGED <<mounted, sfuConfig, currentSFUConfig, aborted,
                 abortHandlesBag, attempts, isSwitchingFocus, isInDoConnect,
                 error, connState, roomState, roomCfg, micPublished>>
  /\ UNCHANGED <<fociVars, muteVars, auxVars>>

\* the transport reports a state change of its own
TransportStep(s) ==
  /\ \/ roomState = "connected" /\ s = "reconnecting"
     \/ roomState = "reconnecting" /\ s \in {"connected", "disconnected"}
  /\ roomState' = s
  /\ roomCfg' = IF s = "disconnected" THEN NoArgs ELSE roomCfg
  /\ screenShared' = IF s = "disconnected" THEN FALSE ELSE screenShared
  /\ connState' = ConnStateOn(s)
  /\ isSwitchingFocus' = SwitchingOn(s)
  /\ UNCHANGED <<mounted, sfuConfig, currentSFUConfig, aborted,
                 abortHandlesBag, attempts, isInDoConnect, error,
                 micPublished>>

\* a ConnectionStateChanged event, seen by the hook alone
TransportStateChanged(s) ==
  /\ TransportStep(s)
  /\ UNCHANGED <<fociVars, muteVars, auxVars>>

\* the component unmounts: the cleanup of the abort effect
Unmount ==
  /\ mounted
  /\ mounted' = FALSE
  /\ aborted' = AbortAll(abortHandlesBag, aborted)
  /\ attempts' = [i \in Indices |->
                    [attempts[i] EXCEPT
                       !.unmountPc = IF attempts[i].pc = "done" THEN "none"
                                     ELSE attempts[i].pc]]
  /\ UNCHANGED <<sfuConfig, currentSFUConfig, abortHandlesBag,
                 isSwitchingFocus, isInDoConnect, error, connState,
                 roomState, roomCfg, micPublished, screenShared>>
  /\ UNCHANGED <<fociVars, muteVars, auxVars>>

\* the first render: useRef(Object.assign({}, sfuConfig)) and the initial
\* connState
InitCtrl ==
  /\ mounted = TRUE
  /\ sfuConfig \in FirstObjects
  /\ currentSFUConfig = ObjectAssign(sfuConfig)
  /\ abortHandlesBag = {}
  /\ aborted = {}
  /\ attempts = <<>>
  /\ isSwitchingFocus = FALSE
  /\ isInDoConnect = FALSE
  /\ error = NoError
  /\ roomState = "disconnected"
  /\ roomCfg = NoArgs
  /\ connState = IF sfuConfig.def THEN roomState ELSE "ec_waiting"
  /\ micPublished = FALSE
  /\ screenShared = FALSE


\* ------------------------------------------------------------------------
\* rtcSessionHelpers: makePreferredLivekitFoci and enterRTCSession
\* ------------------------------------------------------------------------

\* a focus (or focus config); "" stands for a key the object does not have
Focus(type, url, alias) ==
  [type |-> type, livekit_service_url |-> url, livekit_alias |-> alias]

\* getFocusInUse() returned undefined
NoFocus == Focus("undefined", "", "")

\* a null entry of the well-known array
NullEntry == Focus("null", "", "")

\* rtcSession.room.roomId, the livekitAlias of enterRTCSession
RoomId == "roomId"

FocusInUseValues ==
  {NoFocus, Focus("livekit", "A", "aliasA"), Focus("other", "X", "aliasX")}

WellKnownEntries ==
  {NullEntry, Focus("livekit", "B", ""), Focus("livekit", "C", ""),
   Focus("other", "Y", ""), Focus("livekit", "E", "aliasE")}

WellKnownArrays ==
  UNION {[1..n -> WellKnownEntries] : n \in 0..MaxWellKnown}

\* what AutoDiscovery.getRawClientConfig(domain) does: reject, resolve to a
\* document without the rtc_foci key, with a non-array under it, or with an
\* array
LookupOutcomes ==
  {[kind |-> k, foci |-> <<>>] : k \in {"reject", "nokey", "notarray"}}
  \cup {[kind |-> "array", foci |-> a] : a \in WellKnownArrays}

FociInputs ==
  [focusInUse : FocusInUseValues,
   domain : BOOLEAN,
   lookup : LookupOutcomes,
   urlFromConf : {"", "D"}]

isLivekitFocus(f) ==
  f.type = "livekit" /\ f.livekit_service_url # "" /\ f.livekit_alias # ""

isLivekitFocusConfig(f) ==
  f.type = "livekit" /\ f.livekit_service_url # ""

\* makePreferredLivekitFoci up to the await of the lookup
FociFromSession(focusInUse) ==
  IF focusInUse # NoFocus /\ isLivekitFocus(focusInUse)
  THEN <<focusInUse>>
  ELSE <<>>

\* mutant of FociFromWellKnown: the spread comes last, so an entry's own
\* livekit_alias wins over the room id
FociFromWellKnown_OwnAlias(arr, livekitAlias) ==
  LET kept == SelectSeq(arr, LAMBDA f : f # NullEntry /\ isLivekitFocusConfig(f))
  IN [i \in 1..Len(kept) |->
        IF kept[i].livekit_alias # "" THEN kept[i]
        ELSE [kept[i] EXCEPT !.livekit_alias = livekitAlias]]

\* wellKnownFoci.filter((f) => !!f).filter(isLivekitFocusConfig).map(...)
FociFromWellKnown(arr, livekitAlias) ==
  LET kept == SelectSeq(arr, LAMBDA f : f # NullEntry /\ isLivekitFocusConfig(f))
  IN [i \in 1..Len(kept) |-> [kept[i] EXCEPT !.livekit_alias = livekitAlias]]

\* the focus built from Config.get().livekit?.livekit_service_url
FociFromConf(urlFromConf, livekitAlias) ==
  IF urlFromConf # ""
  THEN <<Focus("livekit", urlFromConf, livekitAlias)>>
  ELSE <<>>

\* mutant of MissingFocus: the empty list is not detected
MissingFocus_Never(foci) == FALSE

\* if (preferredFoci.length === 0) throw new MatrixRTCFocusMissingError
MissingFocus(foci) == Len(foci) = 0

\* makePreferredLivekitFoci from the config fallback on, and the
\* joinRoomSession call of enterRTCSession that receives its result
FinishFoci(foci) ==
  LET all == foci \o FociFromConf(fociIn.urlFromConf, RoomId)
  IN /\ preferredFoci' = all
     /\ IF MissingFocus(all)
        THEN /\ fociErr' = MatrixRTCFocusMissingError
             /\ fociPc' = "failed"
             /\ UNCHANGED joinCalls
        ELSE /\ fociPc' = "joined"
             /\ joinCalls' = Append(joinCalls, all)
             /\ UNCHANGED fociErr

\* enterRTCSession when getDomain() returns a domain: runs up to the
\* pending lookup
EnterRTCSession ==
  /\ fociPc = "idle" /\ fociIn.domain
  /\ preferredFoci' = FociFromSession(fociIn.focusInUse)
  /\ fociPc' = "lookup"
  /\ UNCHANGED <<fociIn, fociErr, joinCalls>>
  /\ UNCHANGED <<ctrlVars, muteVars, auxVars>>

\* enterRTCSession when getDomain() returns nothing: no lookup
EnterRTCSessionNoDomain ==
  /\ fociPc = "idle" /\ ~fociIn.domain
  /\ FinishFoci(FociFromSession(fociIn.focusInUse))
  /\ UNCHANGED fociIn
  /\ UNCHANGED <<ctrlVars, muteVars, auxVars>>

\* the lookup settles
LookupSettle ==
  /\ fociPc = "lookup"
  /\ IF fociIn.lookup.kind = "reject"
     THEN /\ fociErr' = Err("Error", 0)
          /\ fociPc' = "failed"
          /\ UNCHANGED <<preferredFoci, joinCalls>>
     ELSE IF fociIn.lookup.kind = "array"
     THEN FinishFoci(preferredFoci
                     \o FociFromWellKnown(fociIn.lookup.foci, RoomId))
     ELSE FinishFoci(preferredFoci)
  /\ UNCHANGED fociIn
  /\ UNCHANGED <<ctrlVars, muteVars, auxVars>>

\* useOpenIDSFU before it is rendered
OpenidIdle ==
  openid = [activeFocus |-> NoFocus, sfuConfig |-> Undef, exchanges |-> <<>>,
            boundary |-> NoError, changes |-> 0]

\* leaveRTCSession before it is called
LeaveIdle ==
  leave = [pc |-> "idle", cause |-> "user", returnToLobby |-> FALSE,
           widget |-> FALSE, promiseBeforeHangup |-> "none", log |-> <<>>,
           errors |-> {}, res |-> "none"]
\* joinRoomAfterInvite before it is called
InviteIdle ==
  invite = [pc |-> "idle", attempt |-> 0, params |-> <<>>, calls |-> <<>>,
            delay |-> 0, res |-> "none", thrown |-> "none"]
\* useCallViewKeyboardShortcuts before it is rendered
PttIdle ==
  ptt = [spacebarHeld |-> FALSE, spaceDown |-> FALSE, windowFocused |-> FALSE,
         inView |-> FALSE, calls |-> <<>>, holdEnded |-> FALSE, events |-> 0]
\* the Initializer class before init() is ever called
InitializerIdle ==
  initializer = [internalInstance |-> 0, instances |-> <<>>, dsn |-> FALSE,
                 returned |-> <<>>]

\* the hooks and helpers modelled further down, none of them in use
AuxIdle ==
  OpenidIdle /\ LeaveIdle /\ InviteIdle /\ PttIdle /\ InitializerIdle

InitFoci ==
  /\ InitCtrl
  /\ MuteIdle
  /\ AuxIdle
  /\ sfuConfig = Undef
  /\ fociPc = "idle"
  /\ fociIn \in FociInputs
  /\ preferredFoci = <<>>
  /\ fociErr = NoError
  /\ joinCalls = <<>>

NextFoci ==
  \/ EnterRTCSession
  \/ EnterRTCSessionNoDomain
  \/ LookupSettle

SpecFoci == InitFoci /\ [][NextFoci]_vars

FociIdle ==
  /\ fociPc = "idle"
  /\ fociIn = [focusInUse |-> NoFocus, domain |-> FALSE,
               lookup |-> [kind |-> "nokey", foci |-> <<>>],
               urlFromConf |-> ""]
  /\ preferredFoci = <<>>
  /\ fociErr = NoError
  /\ joinCalls = <<>>

\* ------------------------------------------------------------------------
\* useLivekit: the effect that syncs the mute states with the transport
\* ------------------------------------------------------------------------

HasFree(ss) == \E n \in Slots : ss[n].pc = "none"
FreeSlot(ss) == CHOOSE n \in Slots :
                  /\ ss[n].pc = "none"
                  /\ \A m \in Slots : m < n => ss[m].pc # "none"

\* what a syncMuteState(iterCount, type) call becomes once it has a
\* publication: the 100 ms sleep
Sleeping(s) == [s EXCEPT !.pc = "sleep", !.delay = SleepMs]

\* what it becomes in the catch block's else branch: the retry timer
Retrying(s) == [s EXCEPT !.pc = "timer", !.delay = RetryMs]

\* the guard of the recursion: iterCount > 10 returns
GivesUp(iterCount) == iterCount > MaxIterCount

\* syncMuteState calls setMicrophoneEnabled / setCameraEnabled
WouldCall(iterCount, btn, dev, upd) ==
  ~GivesUp(iterCount) /\ dev # btn /\ ~upd

\* syncMuteState(iterCount, type) up to its first await, run in slot n by a
\* call that has made `calls` toggle calls so far
SyncMuteState(ss, n, iterCount, calls, btn, dev, upd) ==
  IF WouldCall(iterCount, btn, dev, upd)
  THEN [ss EXCEPT ![n] = [pc |-> "set", iterCount |-> iterCount,
                          arg |-> btn, calls |-> calls + 1, delay |-> 0]]
  ELSE [ss EXCEPT ![n] = NoSync]

\* the body of the effect, run with connection state obs and mute states
\* int on refs btn, upd and pending calls ss
EffectFits(obs, int, dev, upd, ss) ==
  obs = "connected" =>
    \A k \in Kinds : WouldCall(0, int[k], dev[k], upd[k]) => HasFree(ss[k])

MuteEffect(obs, int, btn, dev, upd, ss) ==
  IF obs # "connected" THEN [btn |-> btn, upd |-> upd, ss |-> ss]
  ELSE
  [btn |-> int,
   upd |-> [k \in Kinds |-> upd[k] \/ WouldCall(0, int[k], dev[k], upd[k])],
   ss |-> [k \in Kinds |->
             IF WouldCall(0, int[k], dev[k], upd[k])
             THEN SyncMuteState(ss[k], FreeSlot(ss[k]), 0, 0, int[k],
                                dev[k], upd[k])
             ELSE ss[k]]]

\* the refs and pending calls after a render with new dependencies
RunEffect(obs, int, dev, upd, ss) ==
  /\ EffectFits(obs, int, dev, upd, ss)
  /\ LET r == MuteEffect(obs, int, buttonEnabled, dev, upd, ss) IN
       /\ buttonEnabled' = r.btn
       /\ muteUpdating' = r.upd
       /\ syncs' = r.ss

\* the user presses the mute button of kind k: muteStates changes and the
\* effect runs again
IntentChange(k, v, max) ==
  /\ intentChanges < max
  /\ muteIntent[k] # v
  /\ muteIntent' = [muteIntent EXCEPT ![k] = v]
  /\ intentChanges' = intentChanges + 1
  /\ RunEffect(Observable, muteIntent', devEnabled, muteUpdating, syncs)
  /\ UNCHANGED <<devEnabled, muteLog>>
  /\ UNCHANGED <<ctrlVars, fociVars, auxVars>>

\* a ConnectionStateChanged event: connectionState changes and the effect
\* runs again
ConnectionStateChanged(s) ==
  /\ TransportStep(s)
  /\ IF Observable' # Observable
     THEN RunEffect(Observable', muteIntent, devEnabled, muteUpdating, syncs)
     ELSE UNCHANGED <<buttonEnabled, muteUpdating, syncs>>
  /\ UNCHANGED <<muteIntent, devEnabled, intentChanges, muteLog>>
  /\ UNCHANGED <<fociVars, auxVars>>

SetOutcomes == {"applied", "pending", "nopub", "reject", "notallowed"}

\* the flag after the awaited toggle call: reset after the await and in
\* the NotAllowedError branch, left as it is when the call rejects otherwise
FlagAfter(out, upd) == IF out = "reject" THEN upd ELSE FALSE

\* the mute state after the NotAllowedError branch: setEnabled?.(false)
ForceDisabled_Keep(int, k) == [int EXCEPT ![k] = int[k]]
ForceDisabled(int, k) == [int EXCEPT ![k] = FALSE]

\* setMicrophoneEnabled / setCameraEnabled of the call in slot n settles:
\*   applied     a publication, and the device has the new state
\*   pending     a publication, the device still has the old state
\*   nopub       no publication
\*   reject      rejects with an error that is not a NotAllowedError
\*   notallowed  rejects with a NotAllowedError
SetSettle(k, n, out) ==
  LET s == syncs[k][n]
      dev == IF out = "applied" THEN [devEnabled EXCEPT ![k] = s.arg]
             ELSE devEnabled
      upd == [muteUpdating EXCEPT ![k] = FlagAfter(out, muteUpdating[k])]
      ss == [syncs EXCEPT ![k][n] =
               CASE out \in {"applied", "pending"} -> Sleeping(s)
                 [] out \in {"nopub", "reject"} -> Retrying(s)
                 [] OTHER -> NoSync]
      int == IF out = "notallowed" THEN ForceDisabled(muteIntent, k)
             ELSE muteIntent
  IN
  /\ s.pc = "set"
  /\ devEnabled' = dev
  /\ muteIntent' = int
  /\ IF int # muteIntent
     THEN RunEffect(Observable, int, dev, upd, ss)
     ELSE /\ muteUpdating' = upd
          /\ syncs' = ss
          /\ UNCHANGED buttonEnabled
  /\ muteLog' = IF out = "notallowed" THEN muteLog \cup {<<k, "fatal">>}
                ELSE muteLog
  /\ UNCHANGED intentChanges
  /\ UNCHANGED <<ctrlVars, fociVars, auxVars>>

\* a sleeping or retrying call goes on: syncMuteState(iterCount + 1, type)
Resume(k, n) ==
  LET s == syncs[k][n] IN
  /\ syncs' = [syncs EXCEPT ![k] =
                 SyncMuteState(syncs[k], n, s.iterCount + 1, s.calls,
                               buttonEnabled[k], devEnabled[k],
                               muteUpdating[k])]
  /\ muteUpdating' =
       [muteUpdating EXCEPT ![k] =
          @ \/ WouldCall(s.iterCount + 1, buttonEnabled[k], devEnabled[k],
                         muteUpdating[k])]
  /\ muteLog' = IF GivesUp(s.iterCount + 1) THEN muteLog \cup {<<k, "stop">>}
                ELSE muteLog
  /\ UNCHANGED <<muteIntent, buttonEnabled, devEnabled, intentChanges>>
  /\ UNCHANGED <<ctrlVars, fociVars, auxVars>>

\* the 100 ms sleep after a publication ends
SleepEnd(k, n) ==
  /\ syncs[k][n].pc = "sleep"
  /\ Resume(k, n)

\* the retry timer fires
RetryTimerFires(k, n) ==
  /\ syncs[k][n].pc = "timer"
  /\ Resume(k, n)

\* the hook after a first connect with audio enabled or not, with the mute
\* states of the first render, once the effect has run in state Connected
ConnectedCtrl(audio) ==
  /\ mounted = TRUE
  /\ sfuConfig = ConfigA
  /\ currentSFUConfig = ObjectAssign(ConfigA)
  /\ abortHandlesBag = {}
  /\ aborted = {}
  /\ attempts =
       <<[NewAttempt("doConnect", ConfigA, audio, 1, "done") EXCEPT
            !.track = "live", !.connectCalls = 1, !.connRes = "ok",
            !.log = IF audio THEN <<"createTracks", "connect", "publish">>
                    ELSE <<"createTracks", "mute", "connect", "publish">>]>>
  /\ isSwitchingFocus = FALSE
  /\ isInDoConnect = FALSE
  /\ error = NoError
  /\ roomState = "connected"
  /\ roomCfg = ConnectArgs(ConfigA)
  /\ connState = "connected"
  /\ micPublished = TRUE
  /\ screenShared = FALSE

InitMute ==
  /\ \E audio \in BOOLEAN : ConnectedCtrl(audio)
  /\ FociIdle
  /\ AuxIdle
  /\ muteIntent \in [Kinds -> BOOLEAN]
  /\ muteIntent["Microphone"] = attempts[1].audioEnabled
  /\ devEnabled = [k \in Kinds |->
                     k = "Microphone" /\ attempts[1].audioEnabled]
  /\ intentChanges = 0
  /\ muteLog = {}
  /\ LET idle == [k \in Kinds |-> [n \in Slots |-> NoSync]]
         none == [k \in Kinds |-> FALSE]
         r == MuteEffect("connected", muteIntent, muteIntent, devEnabled,
                         none, idle)
     IN /\ buttonEnabled = r.btn
        /\ muteUpdating = r.upd
        /\ syncs = r.ss

NextMute ==
  \/ \E k \in Kinds, v \in BOOLEAN : IntentChange(k, v, MaxIntentChanges)
  \/ \E s \in {"connected", "reconnecting", "disconnected"} :
       ConnectionStateChanged(s)
  \/ \E k \in Kinds, n \in Slots, out \in SetOutcomes : SetSettle(k, n, out)
  \/ \E k \in Kinds, n \in Slots : SleepEnd(k, n)
  \/ \E k \in Kinds, n \in Slots : RetryTimerFires(k, n)

SpecMute == InitMute /\ [][NextMute]_vars

\* the effect while the hook stays Connected and every toggle takes effect
NextMuteOk ==
  \/ \E k \in Kinds, v \in BOOLEAN : IntentChange(k, v, MaxPresses)
  \/ \E k \in Kinds, n \in Slots : SetSettle(k, n, "applied")
  \/ \E k \in Kinds, n \in Slots : SleepEnd(k, n)

SpecMuteOk == InitMute /\ [][NextMuteOk]_vars

Init == InitCtrl /\ FociIdle /\ MuteIdle /\ AuxIdle

Next ==
  \/ \E c \in FirstObjects, audio \in BOOLEAN : EffectInitialConnect(c, audio)
  \/ \E c \in ConfigValues : EffectFocusSwitch(c)
  \/ \E c \in ConfigValues : EffectNoop(c)
  \/ \E i \in Indices, out \in {"track", "empty", "reject"} :
       CreateTracksSettle(i, out)
  \/ \E i \in Indices, ok \in BOOLEAN : MuteSettle(i, ok)
  \/ \E i \in Indices, e \in ConnectOutcomes : ConnectSettle(i, e)
  \/ \E i \in Indices, ok \in BOOLEAN : PublishSettle(i, ok)
  \/ \E i \in Indices : FsDisconnectSettle(i)
  \/ \E i \in Indices, e \in ConnectOutcomes : FsConnectSettle(i, e)
  \/ \E s \in {"connected", "reconnecting", "disconnected"} :
       TransportStateChanged(s)
  \/ \E i \in Indices, ok \in BOOLEAN : ScreenSharePublishSettle(i, ok)
  \/ ScreenShareStart
  \/ Unmount

Spec == Init /\ [][Next]_vars

\* ------------------------------------------------------------------------
\* openIDSFU: useOpenIDSFU, getSFUConfigWithOpenID, getLiveKitJWT
\* ------------------------------------------------------------------------

\* the livekit foci the session's oldest membership may name
FocusF1 == Focus("livekit", "U1", "alias1")
FocusF2 == Focus("livekit", "U2", "alias2")

\* what rtcSession.getActiveFocus() may return
ActiveFocusValues == {NoFocus, FocusF1, FocusF2, Focus("other", "X", "aliasX")}

\* the JSON the service of focus f answers with
JwtOf(f) == [def |-> TRUE, url |-> f.livekit_service_url,
             jwt |-> f.livekit_alias, ref |-> 0]

\* new FailToGetOpenIdToken(e)
FailToGetOpenIdToken(e) ==
  [cls |-> "FailToGetOpenIdToken", status |-> 0, cause |-> e.cls,
   causeStatus |-> e.status]

\* what doNetworkOperationWithRetry(getOpenIdToken) may do: resolve
\* (NoError) or reject with an Error or with a value that is no Error
OpenIdOutcomes == {NoError, Err("Error", 0), Err("NonError", 0)}

\* what the POST to /sfu/get may do: "ok" a success response with a JSON
\* body, "status" a response that is not ok, "throw" fetch rejects,
\* "badjson" res.json() rejects
FetchOutcomes == {"ok", "status", "throw", "badjson"}

\* the catch around the token request: error instanceof Error ? error :
\* new Error("Unknown error")
OpenIdFailure_Unwrapped(e) == IF IsError(e) THEN e ELSE Err("Error", 0)
OpenIdFailure(e) ==
  FailToGetOpenIdToken(IF IsError(e) THEN e ELSE Err("Error", 0))

\* a getSFUConfigWithOpenID call for focus f, waiting for the token
NewExchange(f) ==
  [focus |-> f, pc |-> "openid", tokenOut |-> NoError, fetchUrl |-> "",
   fetchOut |-> "none", res |-> "none", value |-> Undef, err |-> NoError]

\* the effect of useOpenIDSFU, run with active focus f
OpenidEffect(o, f) ==
  IF f # NoFocus
  THEN [o EXCEPT !.exchanges = Append(@, NewExchange(f))]
  ELSE [o EXCEPT !.sfuConfig = Undef]

\* MembershipsChanged: onMembershipsChanged with getActiveFocus() = f, and
\* the effect if the active focus changed
MembershipsChanged(f) ==
  /\ openid.changes < MaxFocusChanges
  /\ ~(f # NoFocus /\ ~isLivekitFocus(f))
  /\ f # openid.activeFocus
  /\ openid' = OpenidEffect([openid EXCEPT !.activeFocus = f,
                                           !.changes = @ + 1], f)
  /\ UNCHANGED <<ctrlVars, fociVars, muteVars>>
  /\ UNCHANGED <<leave, invite, ptt, initializer>>

\* a membership change that leaves the active focus as it is, or names a
\* focus that is not a livekit focus
MembershipsChangedNoop(f) ==
  /\ openid.changes < MaxFocusChanges
  /\ (f # NoFocus /\ ~isLivekitFocus(f)) \/ f = openid.activeFocus
  /\ openid' = [openid EXCEPT !.changes = @ + 1]
  /\ UNCHANGED <<ctrlVars, fociVars, muteVars>>
  /\ UNCHANGED <<leave, invite, ptt, initializer>>

\* the token request of exchange i settles with e: on success the POST is
\* sent, on failure the call rejects and the hook shows the error boundary
OpenIdSettle(i, e) ==
  /\ i \in DOMAIN openid.exchanges
  /\ openid.exchanges[i].pc = "openid"
  /\ LET x == openid.exchanges[i] IN
     openid' =
       IF e = NoError
       THEN [openid EXCEPT
               !.exchanges[i] =
                  [x EXCEPT !.pc = "fetch",
                            !.fetchUrl = x.focus.livekit_service_url]]
       ELSE [openid EXCEPT
               !.exchanges[i] =
                  [x EXCEPT !.pc = "done", !.tokenOut = e,
                            !.res = "rejected", !.err = OpenIdFailure(e)],
               !.boundary = FailToGetOpenIdToken(OpenIdFailure(e))]
  /\ UNCHANGED <<ctrlVars, fociVars, muteVars>>
  /\ UNCHANGED <<leave, invite, ptt, initializer>>

\* what getSFUConfigWithOpenID returns after getLiveKitJWT: the JSON, or
\* undefined when getLiveKitJWT threw
AfterGetLiveKitJWT(f, out) == IF out = "ok" THEN JwtOf(f) ELSE Undef

\* the POST of exchange i settles: the call resolves and the hook stores
\* what it resolved with
FetchSettle(i, out) ==
  /\ i \in DOMAIN openid.exchanges
  /\ openid.exchanges[i].pc = "fetch"
  /\ LET x == openid.exchanges[i]
         v == AfterGetLiveKitJWT(x.focus, out)
     IN openid' = [openid EXCEPT
                     !.exchanges[i] =
                        [x EXCEPT !.pc = "done", !.fetchOut = out,
                                  !.res = "resolved", !.value = v],
                     !.sfuConfig = v]
  /\ UNCHANGED <<ctrlVars, fociVars, muteVars>>
  /\ UNCHANGED <<leave, invite, ptt, initializer>>

\* the first render of useOpenIDSFU and its effect
InitOpenid ==
  /\ InitCtrl /\ sfuConfig = Undef
  /\ FociIdle /\ MuteIdle
  /\ LeaveIdle /\ InviteIdle /\ PttIdle /\ InitializerIdle
  /\ \E f \in {NoFocus, FocusF1} :
       openid = OpenidEffect([activeFocus |-> f, sfuConfig |-> Undef,
                              exchanges |-> <<>>, boundary |-> NoError,
                              changes |-> 0], f)

NextOpenid ==
  \/ \E f \in ActiveFocusValues : MembershipsChanged(f)
  \/ \E f \in ActiveFocusValues : MembershipsChangedNoop(f)
  \/ \E i \in 1..MaxFocusChanges + 1, e \in OpenIdOutcomes : OpenIdSettle(i, e)
  \/ \E i \in 1..MaxFocusChanges + 1, out \in FetchOutcomes :
       FetchSettle(i, out)

SpecOpenid == InitOpenid /\ [][NextOpenid]_vars

\* ------------------------------------------------------------------------
\* rtcSessionHelpers: leaveRTCSession and widgetPostHangupProcedure
\* ------------------------------------------------------------------------

\* leaveRTCSession returns or throws
LeaveDone(l, res) == [l EXCEPT !.pc = "done", !.res = res]

\* the calls leaveRTCSession makes are appended to its log
LeaveCall(l, pc, op) == [l EXCEPT !.pc = pc, !.log = Append(@, op)]

\* a caught failure of a widget call: logger.error
LeaveLogged(l, ok, op) == IF ok THEN l ELSE [l EXCEPT !.errors = @ \cup {op}]

\* the promise passed as promiseBeforeHangup settles
PromiseBeforeHangupSettle(ok) ==
  /\ leave.promiseBeforeHangup = "pending"
  /\ leave' = [leave EXCEPT !.promiseBeforeHangup = IF ok THEN "fulfilled"
                                                   ELSE "rejected"]
  /\ UNCHANGED <<ctrlVars, fociVars, muteVars>>
  /\ UNCHANGED <<openid, invite, ptt, initializer>>

\* rtcSession.leaveRoomSession() settles: a rejection is thrown on, else
\* the widget procedure starts or promiseBeforeHangup is awaited
LeaveRoomSessionSettle(ok) ==
  /\ leave.pc = "leaveRoomSession"
  /\ leave' = IF ~ok THEN LeaveDone(leave, "rejected")
              ELSE IF leave.widget
              THEN LeaveCall(leave, "setAlwaysOnScreen", "setAlwaysOnScreen")
              ELSE [leave EXCEPT !.pc = "promiseBeforeHangup"]
  /\ UNCHANGED <<ctrlVars, fociVars, muteVars>>
  /\ UNCHANGED <<openid, invite, ptt, initializer>>

\* widget.api.setAlwaysOnScreen(false) settles; a failure is logged
AlwaysOnScreenSettle(ok) ==
  /\ leave.pc = "setAlwaysOnScreen"
  /\ leave' = [LeaveLogged(leave, ok, "setAlwaysOnScreen") EXCEPT
                 !.pc = "promiseBeforeHangup"]
  /\ UNCHANGED <<ctrlVars, fociVars, muteVars>>
  /\ UNCHANGED <<openid, invite, ptt, initializer>>

\* what follows a successful await of promiseBeforeHangup
AfterPromise(l) ==
  IF l.widget THEN LeaveCall(l, "HangupCall", "HangupCall")
  ELSE LeaveDone(l, "resolved")

\* await promiseBeforeHangup can go on
PromiseSettled_NoWait(l) == l.pc = "promiseBeforeHangup"
PromiseSettled(l) == l.promiseBeforeHangup # "pending"

\* await promiseBeforeHangup goes on once the promise has settled (or is
\* undefined): a rejection is thrown on
AwaitPromiseBeforeHangup ==
  /\ leave.pc = "promiseBeforeHangup"
  /\ PromiseSettled(leave)
  /\ leave' = IF leave.promiseBeforeHangup = "rejected"
              THEN LeaveDone(leave, "rejected")
              ELSE AfterPromise(leave)
  /\ UNCHANGED <<ctrlVars, fociVars, muteVars>>
  /\ UNCHANGED <<openid, invite, ptt, initializer>>

\* cause === "user" && !getUrlParams().returnToLobby
ClosesWidget(l) == l.cause = "user" /\ ~l.returnToLobby

\* transport.send(HangupCall) settles; a failure is logged
HangupSettle(ok) ==
  /\ leave.pc = "HangupCall"
  /\ leave' = LET l == LeaveLogged(leave, ok, "HangupCall") IN
              IF ClosesWidget(l) THEN LeaveCall(l, "Close", "Close")
              ELSE LeaveDone(l, "resolved")
  /\ UNCHANGED <<ctrlVars, fociVars, muteVars>>
  /\ UNCHANGED <<openid, invite, ptt, initializer>>

\* transport.send(Close) settles; a failure is logged; transport.stop()
CloseSettle(ok) ==
  /\ leave.pc = "Close"
  /\ leave' = LeaveDone(LeaveCall(LeaveLogged(leave, ok, "Close"), "done",
                                  "stop"), "resolved")
  /\ UNCHANGED <<ctrlVars, fociVars, muteVars>>
  /\ UNCHANGED <<openid, invite, ptt, initializer>>

\* leaveRTCSession(rtcSession, cause, promiseBeforeHangup) up to its first
\* await, in widget mode or not
InitLeave ==
  /\ InitCtrl /\ sfuConfig = Undef
  /\ FociIdle /\ MuteIdle
  /\ OpenidIdle /\ InviteIdle /\ PttIdle /\ InitializerIdle
  /\ \E c \in {"user", "error"}, r \in BOOLEAN, w \in BOOLEAN,
        p \in {"none", "pending"} :
       leave = [pc |-> "leaveRoomSession", cause |-> c, returnToLobby |-> r,
                widget |-> w, promiseBeforeHangup |-> p,
                log |-> <<"leaveRoomSession">>, errors |-> {},
                res |-> "none"]

NextLeave ==
  \/ \E ok \in BOOLEAN : PromiseBeforeHangupSettle(ok)
  \/ \E ok \in BOOLEAN : LeaveRoomSessionSettle(ok)
  \/ \E ok \in BOOLEAN : AlwaysOnScreenSettle(ok)
  \/ AwaitPromiseBeforeHangup
  \/ \E ok \in BOOLEAN : HangupSettle(ok)
  \/ \E ok \in BOOLEAN : CloseSettle(ok)

SpecLeave == InitLeave /\ [][NextLeave]_vars

\* ------------------------------------------------------------------------
\* useLoadGroupCall: joinRoomAfterInvite
\* ------------------------------------------------------------------------

\* the roomId and viaServers the caller passes on to client.joinRoom
JoinParams ==
  {<<r, v>> : r \in {"!room1", "!room2"},
              v \in {"none", "server1", "server2"}}

\* what client.joinRoom may do: resolve, or reject with a MatrixError with
\* errcode M_FORBIDDEN, with another MatrixError, with an Error that is no
\* MatrixError, or with an object that has errcode M_FORBIDDEN without
\* being a MatrixError
JoinOutcomes ==
  {"ok", "MatrixError:M_FORBIDDEN", "MatrixError:M_UNKNOWN", "Error",
   "Object:M_FORBIDDEN"}

\* the condition on which the catch block retries
RetriesJoin(out, attempt) ==
  /\ out = "MatrixError:M_FORBIDDEN"
  /\ attempt < MAX_ATTEMPTS_FOR_INVITE_JOIN_FAILURE

\* the client.joinRoom(...params) of the current attempt settles
JoinRoomSettle(out) ==
  /\ invite.pc = "joinRoom"
  /\ invite' =
       IF out = "ok" THEN [invite EXCEPT !.pc = "done", !.res = "resolved"]
       ELSE IF RetriesJoin(out, invite.attempt)
       THEN [invite EXCEPT !.pc = "delay",
                           !.delay = DELAY_MS_FOR_INVITE_JOIN_FAILURE]
       ELSE [invite EXCEPT !.pc = "done", !.res = "rejected",
                           !.thrown = out]
  /\ UNCHANGED <<ctrlVars, fociVars, muteVars>>
  /\ UNCHANGED <<openid, leave, ptt, initializer>>

\* the delay is over: joinRoomAfterInvite(client, attempt + 1, ...params)
JoinDelayEnd ==
  /\ invite.pc = "delay"
  /\ invite' = [invite EXCEPT !.pc = "joinRoom", !.attempt = @ + 1,
                              !.delay = 0,
                              !.calls = Append(@, invite.params)]
  /\ UNCHANGED <<ctrlVars, fociVars, muteVars>>
  /\ UNCHANGED <<openid, leave, ptt, initializer>>

\* joinRoomAfterInvite(client, 0, roomId, {viaServers}) up to its await
InitInvite ==
  /\ InitCtrl /\ sfuConfig = Undef
  /\ FociIdle /\ MuteIdle
  /\ OpenidIdle /\ LeaveIdle /\ PttIdle /\ InitializerIdle
  /\ \E p \in JoinParams :
       invite = [pc |-> "joinRoom", attempt |-> 0, params |-> p,
                 calls |-> <<p>>, delay |-> 0, res |-> "none",
                 thrown |-> "none"]

NextInvite ==
  \/ \E out \in JoinOutcomes : JoinRoomSettle(out)
  \/ JoinDelayEnd

SpecInvite == InitInvite /\ [][NextInvite]_vars

\* ------------------------------------------------------------------------
\* useCallViewKeyboardShortcuts: the spacebar
\* ------------------------------------------------------------------------

\* In ptt, spaceDown says whether the key is physically down, windowFocused
\* and inView say where the focus is (mayReceiveKeyEvents), calls holds the
\* setMicrophoneMuted calls since the last setMicrophoneMuted(false), and
\* holdEnded says whether the key was released or the window blurred since.

PttEvent(p) == [p EXCEPT !.events = @ + 1]

\* the keydown listener for key " " with modifier state mod
OnKeyDown(p, mod) ==
  IF ~p.inView \/ mod \/ p.spacebarHeld THEN p
  ELSE [p EXCEPT !.spacebarHeld = TRUE, !.calls = <<FALSE>>,
                 !.holdEnded = FALSE]

\* the keyup listener for key " "
OnKeyUp(p) ==
  IF ~p.inView THEN p
  ELSE [p EXCEPT !.spacebarHeld = FALSE, !.calls = Append(@, TRUE)]

\* the blur listener
OnBlur(p) ==
  IF p.spacebarHeld
  THEN [p EXCEPT !.spacebarHeld = FALSE, !.calls = Append(@, TRUE)]
  ELSE p

\* the user presses space, or the key repeats while it is down; the window
\* gets the event if it has the focus
KeyDownSpace(mod, repeat) ==
  /\ ptt.events < MaxKeyEvents
  /\ repeat = ptt.spaceDown
  /\ ptt' = LET p == [PttEvent(ptt) EXCEPT !.spaceDown = TRUE] IN
            IF ptt.windowFocused THEN OnKeyDown(p, mod) ELSE p
  /\ UNCHANGED <<ctrlVars, fociVars, muteVars>>
  /\ UNCHANGED <<openid, leave, invite, initializer>>

\* the user releases space
KeyUpSpace ==
  /\ ptt.events < MaxKeyEvents
  /\ ptt.spaceDown
  /\ ptt' = LET p == [PttEvent(ptt) EXCEPT !.spaceDown = FALSE,
                                           !.holdEnded = TRUE] IN
            IF ptt.windowFocused THEN OnKeyUp(p) ELSE p
  /\ UNCHANGED <<ctrlVars, fociVars, muteVars>>
  /\ UNCHANGED <<openid, leave, invite, initializer>>

\* the window loses the focus
WindowBlur ==
  /\ ptt.events < MaxKeyEvents
  /\ ptt.windowFocused
  /\ ptt' = OnBlur([PttEvent(ptt) EXCEPT !.windowFocused = FALSE,
                                         !.holdEnded = TRUE])
  /\ UNCHANGED <<ctrlVars, fociVars, muteVars>>
  /\ UNCHANGED <<openid, leave, invite, initializer>>

\* the window gets the focus back
WindowFocus ==
  /\ ptt.events < MaxKeyEvents
  /\ ~ptt.windowFocused
  /\ ptt' = [PttEvent(ptt) EXCEPT !.windowFocused = TRUE]
  /\ UNCHANGED <<ctrlVars, fociVars, muteVars>>
  /\ UNCHANGED <<openid, leave, invite, initializer>>

\* document.activeElement changes: it contains the call view or not
FocusMoves(in) ==
  /\ ptt.events < MaxKeyEvents
  /\ ptt.windowFocused
  /\ ptt.inView # in
  /\ ptt' = [PttEvent(ptt) EXCEPT !.inView = in]
  /\ UNCHANGED <<ctrlVars, fociVars, muteVars>>
  /\ UNCHANGED <<openid, leave, invite, initializer>>

\* the hook is rendered in a focused window, space is up
InitPtt ==
  /\ InitCtrl /\ sfuConfig = Undef
  /\ FociIdle /\ MuteIdle
  /\ OpenidIdle /\ LeaveIdle /\ InviteIdle /\ InitializerIdle
  /\ \E v \in BOOLEAN :
       ptt = [spacebarHeld |-> FALSE, spaceDown |-> FALSE,
              windowFocused |-> TRUE, inView |-> v, calls |-> <<>>,
              holdEnded |-> FALSE, events |-> 0]

NextPtt ==
  \/ \E mod \in BOOLEAN, repeat \in BOOLEAN : KeyDownSpace(mod, repeat)
  \/ KeyUpSpace
  \/ WindowBlur
  \/ WindowFocus
  \/ \E in \in BOOLEAN : FocusMoves(in)

SpecPtt == InitPtt /\ [][NextPtt]_vars

\* ------------------------------------------------------------------------
\* Initializer: init, reset and initStep
\* ------------------------------------------------------------------------

\* new Initializer(): loadStates of a new DependencyLoadStates, no promise
NewInitializer ==
  [config |-> "None", sentry |-> "None", openTelemetry |-> "None",
   hasPromise |-> FALSE, resolves |-> 0, isInitialized |-> FALSE,
   log |-> <<>>]

\* DependencyLoadStates.allDepsAreLoaded
allDepsAreLoaded(x) ==
  x.config = "Loaded" /\ x.sentry = "Loaded" /\ x.openTelemetry = "Loaded"

\* initStep, the config part
StepConfig(x) ==
  IF x.config = "None"
  THEN [x EXCEPT !.config = "Loading", !.log = Append(@, "Config.init")]
  ELSE x

\* the condition of the sentry part
SentryIsDue_BeforeConfig(x) == x.sentry = "None"
SentryIsDue(x) == x.sentry = "None" /\ x.config = "Loaded"

\* initStep, the sentry part: Sentry.init is called if there is a dsn
StepSentry(x, dsn) ==
  IF SentryIsDue(x)
  THEN [x EXCEPT !.sentry = "Loaded",
                 !.log = IF dsn THEN Append(@, "Sentry.init") ELSE @]
  ELSE x

\* initStep, the OpenTelemetry part
StepOpenTelemetry(x) ==
  IF x.openTelemetry = "None" /\ x.config = "Loaded"
  THEN [x EXCEPT !.openTelemetry = "Loaded",
                 !.log = Append(@, "globalInit")]
  ELSE x

\* initStep, the end: resolve()
StepResolve(x) ==
  IF allDepsAreLoaded(x)
  THEN [x EXCEPT !.resolves = @ + 1, !.isInitialized = TRUE,
                 !.log = Append(@, "resolve")]
  ELSE x

\* initStep(resolve); if Sentry.init throws, initStep ends there
initStep(x, dsn, sentryOk) ==
  LET c == StepConfig(x) IN
  IF SentryIsDue(c) /\ dsn /\ ~sentryOk
  THEN [c EXCEPT !.log = Append(@, "Sentry.init")]
  ELSE StepResolve(StepOpenTelemetry(StepSentry(c, dsn)))

InitCalls == Len(initializer.returned)

\* Initializer?.internalInstance?.initPromise
HasInitPromise ==
  IF initializer.internalInstance = 0
  THEN FALSE
  ELSE initializer.instances[initializer.internalInstance].hasPromise

\* Initializer.init() while there is no instance with a promise: a new
\* instance, whose promise is set after its executor has run initStep
InitNew ==
  /\ InitCalls < MaxInitCalls
  /\ ~HasInitPromise
  /\ initializer' =
       [initializer EXCEPT
          !.instances =
             Append(@, [initStep(NewInitializer, initializer.dsn, TRUE)
                          EXCEPT !.hasPromise = TRUE]),
          !.internalInstance = Len(initializer.instances) + 1,
          !.returned = Append(@, "promise")]
  /\ UNCHANGED <<ctrlVars, fociVars, muteVars>>
  /\ UNCHANGED <<openid, leave, invite, ptt>>

\* Initializer.init() while an instance with a promise exists: null
InitAgain ==
  /\ InitCalls < MaxInitCalls
  /\ HasInitPromise
  /\ initializer' = [initializer EXCEPT !.returned = Append(@, "null")]
  /\ UNCHANGED <<ctrlVars, fociVars, muteVars>>
  /\ UNCHANGED <<openid, leave, invite, ptt>>

\* Initializer.reset()
InitReset ==
  /\ InitCalls < MaxInitCalls
  /\ initializer.internalInstance # 0
  /\ initializer' = [initializer EXCEPT !.internalInstance = 0,
                                        !.returned = Append(@, "reset")]
  /\ UNCHANGED <<ctrlVars, fociVars, muteVars>>
  /\ UNCHANGED <<openid, leave, invite, ptt>>

\* Config.init() of instance i settles: loaded and initStep again, or a
\* logged failure
ConfigInitSettle(i, ok, sentryOk) ==
  /\ i \in DOMAIN initializer.instances
  /\ initializer.instances[i].config = "Loading"
  /\ "Config.failed" \notin
       {initializer.instances[i].log[n] :
          n \in DOMAIN initializer.instances[i].log}
  /\ initializer' =
       [initializer EXCEPT
          !.instances[i] =
             IF ok
             THEN initStep([@ EXCEPT !.config = "Loaded"], initializer.dsn,
                           sentryOk)
             ELSE [@ EXCEPT !.log = Append(@, "Config.failed")]]
  /\ UNCHANGED <<ctrlVars, fociVars, muteVars>>
  /\ UNCHANGED <<openid, leave, invite, ptt>>

\* the page before the first Initializer.init(), with or without a DSN
InitInitializer ==
  /\ InitCtrl /\ sfuConfig = Undef
  /\ FociIdle /\ MuteIdle
  /\ OpenidIdle /\ LeaveIdle /\ InviteIdle /\ PttIdle
  /\ \E d \in BOOLEAN :
       initializer = [internalInstance |-> 0, instances |-> <<>>, dsn |-> d,
                      returned |-> <<>>]

NextInitializer ==
  \/ InitNew
  \/ InitAgain
  \/ InitReset
  \/ \E i \in 1..MaxInitCalls, ok \in BOOLEAN, sentryOk \in BOOLEAN :
       ConfigInitSettle(i, ok, sentryOk)

SpecInitializer == InitInitializer /\ [][NextInitializer]_vars

\* ------------------------------------------------------------------------
\* Properties
\* ------------------------------------------------------------------------

DoConnects == {i \in Indices : attempts[i].kind = "doConnect"}

\* C1: if the component unmounts after an initial attempt has started
\* createTracks and before it has called room.connect, the attempt never
\* calls room.connect and the microphone track it acquired is stopped.
C1_Claim ==
  \A i \in DoConnects :
    attempts[i].unmountPc \in {"createTracks", "mute"} =>
      /\ attempts[i].connectCalls = 0
      /\ attempts[i].pc = "done" => attempts[i].track # "live"

\* C2: an initial attempt that resumes from createTracks or from mute with
\* its handle already aborted does not go on to the connect step: it never
\* calls room.connect, whether the awaited step resolved or rejected and
\* whatever the initial audio flag.
C2_Claim ==
  [][\A i \in DoConnects :
       (isAborted(attempts[i].handle)
        /\ attempts[i].pc \in {"createTracks", "mute"})
       => /\ attempts'[i].pc # "connect"
          /\ attempts'[i].connectCalls = attempts[i].connectCalls]_vars

\* C3: an initial attempt whose room.connect was pending when the component
\* unmounted, and whose connect then resolved, has called room.disconnect
\* exactly once when it ends.
C3_Claim ==
  \A i \in DoConnects :
    (attempts[i].unmountPc = "connect" /\ attempts[i].connRes = "ok"
     /\ attempts[i].pc = "done")
    => attempts[i].disconnectCalls = 1

\* C4: every attempt in flight, initial connect or focus switch, has an
\* AbortHandle registered in the bag, and an attempt that had not yet called
\* room.connect when the component unmounted never calls it.
C4_Claim ==
  \A i \in Indices :
    /\ InFlight(i) =>
         attempts[i].handle # 0 /\ attempts[i].handle \in abortHandlesBag
    /\ attempts[i].unmountPc \in {"createTracks", "mute", "fsDisconnect"} =>
         attempts[i].connectCalls = 0

\* C5: when the component unmounts, every handle in the bag at that moment
\* becomes aborted; the handle of a completed attempt is not in the bag.
C5_Theorem ==
  /\ [][(mounted /\ ~mounted') => abortHandlesBag \subseteq aborted']_vars
  /\ [](\A i \in Indices :
          attempts[i].pc = "done" => attempts[i].handle \notin abortHandlesBag)

\* an initial attempt was pending at unmount and is aborted, after an
\* earlier one had completed and left the bag
C5_Witness ==
  /\ ~mounted
  /\ abortHandlesBag # {}
  /\ abortHandlesBag \subseteq aborted
  /\ \E i \in Indices :
       attempts[i].pc = "done" /\ attempts[i].handle \notin abortHandlesBag
                               /\ attempts[i].handle # 0

\* C6: at most one connection attempt (initial connect or focus switch) is
\* in flight at any time, whatever the sequence of sfuConfig changes.
C6_Claim == Cardinality({i \in Indices : InFlight(i)}) <= 1

RECURSIVE Published(_)
Published(arr) ==
  IF arr = <<>> THEN <<>>
  ELSE (IF Head(arr) = NullEntry THEN <<>> ELSE <<Head(arr)>>)
       \o Published(Tail(arr))

\* the LiveKit backends of a well-known array, in published order
RECURSIVE PublishedLivekit(_)
PublishedLivekit(arr) ==
  IF arr = <<>> THEN <<>>
  ELSE (IF Head(arr).type = "livekit" /\ Head(arr).livekit_service_url # ""
        THEN <<Head(arr)>> ELSE <<>>)
       \o PublishedLivekit(Tail(arr))

\* the well-known array the lookup delivered, if any
LookedUp ==
  IF fociIn.domain /\ fociIn.lookup.kind = "array"
  THEN fociIn.lookup.foci
  ELSE <<>>

WithRoomAlias(fs) ==
  [i \in 1..Len(fs) |->
     Focus(fs[i].type, fs[i].livekit_service_url, RoomId)]

Fallback ==
  IF fociIn.urlFromConf = "" THEN <<>>
  ELSE <<Focus("livekit", fociIn.urlFromConf, RoomId)>>

\* C7 as claimed: the list passed to joinRoomSession is the in-use focus iff
\* one is reported, then every published backend, then the fallback.
C7_Original ==
  fociPc = "joined" =>
    preferredFoci =
      (IF fociIn.focusInUse # NoFocus THEN <<fociIn.focusInUse>> ELSE <<>>)
      \o WithRoomAlias(Published(LookedUp)) \o Fallback

\* C7: the list passed to joinRoomSession is the in-use focus, unchanged,
\* iff one is reported and it is a LiveKit focus, then every LiveKit backend
\* of the well-known array in published order, then the configured
\* fallback; every published or fallback candidate has the room id as alias.
C7_Theorem ==
  fociPc = "joined" =>
    LET use == fociIn.focusInUse
        first == use.type = "livekit" /\ use.livekit_service_url # ""
                 /\ use.livekit_alias # ""
        k == IF first THEN 1 ELSE 0
    IN /\ preferredFoci =
            (IF first THEN <<use>> ELSE <<>>)
            \o WithRoomAlias(PublishedLivekit(LookedUp)) \o Fallback
       /\ first <=> (preferredFoci # <<>> /\ Head(preferredFoci) = use)
       /\ \A n \in (k + 1)..Len(preferredFoci) :
            preferredFoci[n].livekit_alias = RoomId
       /\ joinCalls = <<preferredFoci>>

\* in-use A, published [B, E], fallback D: joined with [A, B, E, D]
C7_Witness ==
  /\ fociPc = "joined"
  /\ fociIn.focusInUse = Focus("livekit", "A", "aliasA")
  /\ fociIn.urlFromConf = "D"
  /\ preferredFoci =
       <<Focus("livekit", "A", "aliasA"), Focus("livekit", "B", RoomId),
         Focus("livekit", "E", RoomId), Focus("livekit", "D", RoomId)>>

\* no source delivers a usable focus
NoCandidate ==
  /\ fociIn.focusInUse = NoFocus
  /\ PublishedLivekit(LookedUp) = <<>>
  /\ fociIn.urlFromConf = ""

LookupRejected == fociIn.domain /\ fociIn.lookup.kind = "reject"

C9_Claim ==
  (LookupRejected /\ fociPc \in {"joined", "failed"})
  => /\ fociErr \in {NoError, MatrixRTCFocusMissingError}
     /\ (fociIn.urlFromConf # "" => fociPc = "joined")

\* C11: every failure of room.connect with an Error, in an initial connect
\* or in the reconnect of a focus switch, is surfaced while the component is
\* mounted: after the step in which the connect fails the error state holds
\* a typed error.
C11_Claim ==
  [][\A i \in Indices :
       (mounted /\ attempts[i].pc = "connect"
        /\ attempts'[i].connRes = "fail" /\ IsError(attempts'[i].connErr))
       => IsElementCallError(error')]_vars

\* C12: when the config effect runs with another object whose url and jwt
\* equal those of the current valid config, nothing happens: no attempt
\* starts, no connect, disconnect or focus switch is issued, and the current
\* config keeps its value; this holds at every such run.
C12_Theorem ==
  [][(mounted /\ sfuConfigValid(currentSFUConfig)
      /\ sfuConfig' # sfuConfig
      /\ sfuConfig'.url = currentSFUConfig.url
      /\ sfuConfig'.jwt = currentSFUConfig.jwt)
     => /\ currentSFUConfig' = currentSFUConfig
        /\ UNCHANGED <<attempts, abortHandlesBag, aborted, isSwitchingFocus,
                       isInDoConnect, error, connState, roomState, roomCfg,
                       micPublished, screenShared>>]_vars

\* connected with ConfigA by the one initial attempt, and the effect has run
\* again with ConfigA2: still one connect, no disconnect
C12_Witness ==
  /\ mounted
  /\ sfuConfig = ConfigA2
  /\ roomState = "connected" /\ roomCfg = ConnectArgs(ConfigA)
  /\ Len(attempts) = 1
  /\ attempts[1].kind = "doConnect" /\ attempts[1].pc = "done"
  /\ attempts[1].connectCalls = 1 /\ attempts[1].disconnectCalls = 0

\* C13: whenever the room is connected, no attempt is in flight, no focus
\* switch has run yet, and the effect runs with a valid config that differs
\* by value from the one the room is connected with (directly, or after an
\* invalid config in between), an attempt for the new config (a fresh
\* connect or a focus switch) is in flight afterwards.
C13_Claim ==
  [][(mounted /\ roomState = "connected"
      /\ \A i \in Indices :
           attempts[i].pc = "done" /\ attempts[i].kind = "doConnect"
      /\ sfuConfig' # sfuConfig /\ sfuConfigValid(sfuConfig')
      /\ ConnectArgs(sfuConfig') # roomCfg)
     => \E i \in DOMAIN attempts' :
          /\ i \notin Indices
          /\ attempts'[i].pc # "done"
          /\ ConnectArgs(attempts'[i].cfg) = ConnectArgs(sfuConfig')]_vars

FocusSwitches == {i \in Indices : attempts[i].kind = "doFocusSwitch"}

\* C14 as claimed: once a focus switch that carried a screen-share clone has
\* reconnected and its publish has settled, and the room is still connected
\* with the new config, a screen-share track is published.
C14_Original ==
  \A i \in FocusSwitches :
    (attempts[i].clones > 0 /\ attempts[i].connRes = "ok"
     /\ attempts[i].ssPublish \notin {"none", "pending"}
     /\ roomState = "connected"
     /\ roomCfg = ConnectArgs(attempts[i].cfg))
    => screenShared

\* C14: a focus switch clones the published screen-share track before it
\* disconnects; when its reconnect succeeds the room is connected with the
\* new config and publishTrack has been issued for the clone without being
\* awaited; the screen share is published when that publish resolves and
\* stays unpublished when it rejects; a focus switch never calls
\* createTracks and holds no microphone track.
C14_Theorem ==
  /\ [][/\ \A i \in DOMAIN attempts' \ Indices :
            attempts'[i].kind = "doFocusSwitch"
            => /\ attempts'[i].clones = (IF screenShared THEN 1 ELSE 0)
               /\ attempts'[i].log =
                    (IF screenShared THEN <<"clone">> ELSE <<>>)
                    \o <<"disconnect">>
        /\ \A i \in FocusSwitches :
            /\ (attempts[i].pc = "connect" /\ attempts'[i].connRes = "ok")
               => /\ roomState' = "connected"
                  /\ roomCfg' = ConnectArgs(attempts[i].cfg)
                  /\ attempts[i].clones > 0
                     => attempts'[i].ssPublish = "pending"
            /\ (attempts[i].ssPublish = "pending"
                /\ attempts'[i].ssPublish = "ok") => screenShared'
            /\ (attempts[i].ssPublish = "pending"
                /\ attempts'[i].ssPublish = "failed")
               => screenShared' = screenShared]_vars
  /\ [](\A i \in FocusSwitches :
          /\ attempts[i].track = "none"
          /\ \A n \in DOMAIN attempts[i].log :
               attempts[i].log[n] \notin {"createTracks", "mute", "publish"}
          /\ attempts[i].ssPublish # "none" => attempts[i].clones > 0)

\* a focus switch from ConfigA to ConfigB carried a clone, reconnected and
\* republished it
C14_Witness ==
  \E i \in FocusSwitches :
    /\ attempts[i].log = <<"clone", "disconnect", "disconnected", "connect",
                           "publishScreenshare">>
    /\ attempts[i].ssPublish = "ok"
    /\ roomState = "connected"
    /\ roomCfg = ConnectArgs(ConfigB)
    /\ screenShared

\* position of the first occurrence of op in a log, 0 if there is none
FirstAt(log, op) ==
  IF \E n \in DOMAIN log : log[n] = op
  THEN CHOOSE n \in DOMAIN log :
         log[n] = op /\ \A m \in 1..(n - 1) : log[m] # op
  ELSE 0

Calls(log, op) == Cardinality({n \in DOMAIN log : log[n] = op})

\* C15: a focus switch issues room.connect only when the disconnect it
\* awaited has completed: it calls disconnect once, connect at most once, and
\* the connect comes after the completion of the disconnect; at the call of
\* disconnect the room leaves its old connection.
C15_Theorem ==
  /\ [](\A i \in FocusSwitches :
          LET l == attempts[i].log
          IN /\ Calls(l, "disconnect") = 1 /\ attempts[i].disconnectCalls = 1
             /\ Calls(l, "connect") = attempts[i].connectCalls
             /\ attempts[i].connectCalls <= 1
             /\ attempts[i].connectCalls = 1
                => /\ FirstAt(l, "disconnect") < FirstAt(l, "disconnected")
                   /\ FirstAt(l, "disconnected") < FirstAt(l, "connect")
                   /\ FirstAt(l, "disconnect") > 0)
  /\ [][\A i \in DOMAIN attempts' \ Indices :
          attempts'[i].kind = "doFocusSwitch"
          => /\ attempts'[i].connectCalls = 0
             /\ roomState' = "disconnected" /\ roomCfg' = NoArgs]_vars

\* a focus switch that disconnected, then connected, and is over
C15_Witness ==
  \E i \in FocusSwitches :
    /\ attempts[i].pc = "done" /\ attempts[i].connRes = "ok"
    /\ attempts[i].log = <<"disconnect", "disconnected", "connect">>
    /\ roomState = "connected" /\ roomCfg = ConnectArgs(attempts[i].cfg)

\* C16: the observable state becomes SwitchingFocus only from Connected.
C16_Claim ==
  [][(Observable' = "ec_switching_focus" /\ Observable # "ec_switching_focus")
     => Observable = "connected"]_vars

\* C17: once a focus switch has finished its reconnect, with success or
\* with failure, and nothing is in flight any more, the observable state of
\* the mounted hook is not SwitchingFocus.
C17_Claim ==
  (/\ mounted
   /\ FocusSwitches # {}
   /\ \A i \in Indices :
        attempts[i].pc = "done" /\ attempts[i].ssPublish # "pending")
  => Observable # "ec_switching_focus"

\* C18: when every attempt so far is a focus switch, all of them have
\* completed with a successful reconnect and the room is connected, the room
\* is connected with the latest valid config.
C18_Claim ==
  (/\ mounted
   /\ FocusSwitches # {} /\ FocusSwitches = Indices
   /\ \A i \in Indices :
        attempts[i].pc = "done" /\ attempts[i].connRes = "ok"
   /\ sfuConfigValid(currentSFUConfig)
   /\ roomState = "connected")
  => roomCfg = ConnectArgs(currentSFUConfig)

\* C19: the observable state is Waiting at the first render unless a valid
\* config is supplied with it, and stays Waiting at every step that supplies
\* no valid config.
C19_Claim ==
  /\ ~sfuConfigValid(sfuConfig) => Observable = "ec_waiting"
  /\ [][(Observable = "ec_waiting" /\ ~sfuConfigValid(sfuConfig'))
        => Observable' = "ec_waiting"]_vars

\* C20: when the first valid config arrives the hook reports Connecting and
\* starts doConnect with createTracks; every initial attempt calls
\* createTracks first, room.connect after it and publishTrack for the
\* microphone only after the connect resolved; a created track is published
\* when the connect resolves whatever the audio flag, and it is muted before
\* the connect exactly when audio starts disabled.
C20_Theorem ==
  /\ [][/\ (mounted /\ attempts = <<>> /\ ~sfuConfigValid(currentSFUConfig)
            /\ sfuConfig' # sfuConfig /\ sfuConfigValid(sfuConfig'))
           => /\ Observable' = "connecting"
              /\ Len(attempts') = 1
              /\ attempts'[1].kind = "doConnect"
              /\ attempts'[1].log = <<"createTracks">>
        /\ \A i \in DoConnects :
             (attempts[i].pc = "connect" /\ attempts'[i].connRes = "ok"
              /\ attempts[i].track = "live")
             => /\ attempts'[i].pc = "publish"
                /\ attempts'[i].log = Append(attempts[i].log, "publish")
                /\ attempts'[i].track = "live"]_vars
  /\ [](\A i \in DoConnects :
          LET l == attempts[i].log
          IN /\ l # <<>> => l[1] = "createTracks"
             /\ Calls(l, "createTracks") <= 1
             /\ Calls(l, "connect") = attempts[i].connectCalls
             /\ FirstAt(l, "connect") > 0
                => /\ FirstAt(l, "connect") > 1
                   /\ attempts[i].pc # "createTracks"
                   /\ FirstAt(l, "mute") < FirstAt(l, "connect")
                   /\ (attempts[i].track # "none" /\ ~attempts[i].audioEnabled)
                      <=> FirstAt(l, "mute") > 0
             /\ FirstAt(l, "publish") > 0
                => /\ FirstAt(l, "connect") > 0
                   /\ FirstAt(l, "connect") < FirstAt(l, "publish")
                   /\ attempts[i].connRes = "ok")

\* an initial attempt that started with audio disabled created the track,
\* muted it, connected and published it
C20_Witness ==
  \E i \in DoConnects :
    /\ ~attempts[i].audioEnabled
    /\ attempts[i].log = <<"createTracks", "mute", "connect", "publish">>
    /\ attempts[i].pc = "done"
    /\ attempts[i].track = "live"
    /\ micPublished /\ roomState = "connected"

\* C21: when room.connect or publishTrack of an initial attempt fails, the
\* attempt ends with no live track (a created track is stopped), and a
\* thrown Error is surfaced: the error state holds the typed error itself
\* or an UnknownCallError wrapping it.
C21_Theorem ==
  /\ [][\A i \in DoConnects :
          (attempts[i].pc \in {"connect", "publish"}
           /\ attempts'[i].pc = "done" /\ attempts'[i].err # NoError)
          => LET e == attempts'[i].err
             IN /\ attempts'[i].track =
                     (IF attempts[i].track = "live" THEN "stopped"
                      ELSE attempts[i].track)
                /\ IsElementCallError(e) => error' = e
                /\ (IsError(e) /\ ~IsElementCallError(e))
                   => error' = UnknownCallError(e)]_vars
  /\ [](\A i \in DoConnects :
          (attempts[i].pc = "done" /\ attempts[i].err # NoError
           /\ attempts[i].connectCalls > 0)
          => attempts[i].track # "live")

\* an initial attempt created a track and its connect failed with status
\* 400: the track is stopped and the wrapped error is surfaced
C21_Witness ==
  \E i \in DoConnects :
    /\ attempts[i].pc = "done"
    /\ attempts[i].connErr = ConnectionError(400)
    /\ attempts[i].track = "stopped"
    /\ error = UnknownCallError(ConnectionError(400))

C23_Claim ==
  [][\A i \in DoConnects :
       (isAborted(attempts[i].handle) /\ attempts[i].pc # "done"
        /\ attempts'[i].pc = "done")
       => /\ error' = error
          /\ attempts'[i].err = NoError]_vars

\* C24: a handle is not aborted when its attempt creates it, an aborted
\* handle stays aborted at every step, and aborting handles that are
\* already aborted changes nothing.
C24_Theorem ==
  /\ [][/\ aborted \subseteq aborted'
        /\ \A i \in DOMAIN attempts' \ Indices :
             ~(attempts'[i].handle \in aborted')]_vars
  /\ [](AbortAll(abortHandlesBag, AbortAll(abortHandlesBag, aborted))
          = AbortAll(abortHandlesBag, aborted))

\* the handle of the first attempt was aborted at unmount while the attempt
\* was pending, and is still aborted after the attempt has ended
C24_Witness ==
  /\ ~mounted
  /\ Len(attempts) >= 1
  /\ attempts[1].handle = 1 /\ 1 \in aborted
  /\ attempts[1].unmountPc # "none" /\ attempts[1].pc = "done"

\* C25: the bag holds exactly the handles of the initial attempts that are
\* still in flight.
C25_Theorem ==
  abortHandlesBag = {attempts[i].handle : i \in {j \in DoConnects : InFlight(j)}}

\* the first attempt has failed and left the bag, the second is in flight
C25_Witness ==
  /\ Len(attempts) = 2
  /\ attempts[1].kind = "doConnect" /\ attempts[1].pc = "done"
  /\ attempts[1].err # NoError
  /\ attempts[2].kind = "doConnect" /\ InFlight(2)
  /\ abortHandlesBag = {2}

\* the toggle call of kind k pending in slot n ends in this step without a
\* sleep and without a retry timer: the NotAllowedError branch has run
EndsFatal(k, n) ==
  /\ syncs[k][n].pc = "set"
  /\ intentChanges' = intentChanges
  /\ roomState' = roomState
  /\ syncs'[k][n].pc \notin {"sleep", "timer"}
  /\ syncs'[k][n] # syncs[k][n] \/ muteIntent'[k] # muteIntent[k]

\* C26: a syncMuteState call and the calls that continue it invoke
\* setMicrophoneEnabled / setCameraEnabled at most 10 times.
C26_Claim ==
  \A k \in Kinds, n \in Slots : syncs[k][n].calls <= 10

\* C27: in every step in which setMicrophoneEnabled / setCameraEnabled is
\* invoked (the updating flag of the kind goes up), the state the hook
\* shows is Connected.
C27_Claim ==
  [][\A k \in Kinds :
       (~muteUpdating[k] /\ muteUpdating'[k]) => Observable' = "connected"]_vars

\* C28: a toggle that fails without a NotAllowedError leaves a retry timer
\* of 1 s, and when that timer fires below the iteration limit while the
\* device state and the button state of the kind differ and no toggle call
\* of the kind is pending, the toggle is invoked again.
C28_Claim ==
  [][\A k \in Kinds, n \in Slots :
       /\ (syncs[k][n].pc = "set" /\ syncs'[k][n].pc = "timer")
          => syncs'[k][n].delay = 1000
       /\ (/\ syncs[k][n].pc = "timer"
           /\ syncs'[k][n].pc # "timer"
           /\ ~GivesUp(syncs[k][n].iterCount + 1)
           /\ devEnabled[k] # buttonEnabled[k]
           /\ \A m \in Slots : syncs[k][m].pc # "set")
          => syncs'[k][n].pc = "set"]_vars

\* C29: when a toggle call ends in the NotAllowedError branch, the mute
\* state of its kind is disabled afterwards, the updating flag of the kind
\* is cleared (it is up again only for a fresh call with iterCount 0 that
\* the effect of the changed mute state starts), no retry timer of the kind
\* is started, and the mute state of the other kind is left alone.
C29_Theorem ==
  [][\A k \in Kinds, n \in Slots :
       EndsFatal(k, n)
       => /\ muteIntent'[k] = FALSE
          /\ \A j \in Kinds \ {k} : muteIntent'[j] = muteIntent[j]
          /\ \A m \in Slots :
               syncs'[k][m].pc = "timer" => syncs[k][m] = syncs'[k][m]
          /\ IF \A m \in Slots : syncs'[k][m].pc # "set"
             THEN ~muteUpdating'[k]
             ELSE /\ muteIntent[k]
                  /\ \A m \in Slots :
                       syncs'[k][m].pc = "set"
                       => syncs'[k][m].iterCount = 0]_vars

\* enabling the camera was refused with a NotAllowedError: the effect has
\* logged the fatal error, the camera's mute state is disabled, its flag is
\* down and no call of the kind is left
C29_Witness ==
  /\ <<"Camera", "fatal">> \in muteLog
  /\ intentChanges = 0
  /\ ~muteIntent["Camera"]
  /\ ~devEnabled["Camera"]
  /\ ~muteUpdating["Camera"]
  /\ \A n \in Slots : syncs["Camera"][n].pc = "none"

\* C30: while the hook is Connected and every toggle takes effect, a kind
\* for which no syncMuteState call is pending (nothing more will happen
\* without another press) has the device state the user asked for last.
C30_Claim ==
  \A k \in Kinds :
    (Observable = "connected" /\ \A n \in Slots : syncs[k][n].pc = "none")
    => devEnabled[k] = muteIntent[k]

\* C36: of each kind at most one toggle call is pending at a time, and in
\* the step in which a pending toggle call settles (it goes on to the sleep,
\* to the retry timer or ends) the updating flag of its kind is down.
C36_Claim ==
  /\ [](\A k \in Kinds :
          Cardinality({n \in Slots : syncs[k][n].pc = "set"}) <= 1)
  /\ [][\A k \in Kinds, n \in Slots :
          (/\ syncs[k][n].pc = "set"
           /\ syncs'[k][n].pc \in {"sleep", "timer", "none"})
          => ~muteUpdating'[k]]_vars

C31_Theorem ==
  /\ [](\A i \in DOMAIN openid.exchanges :
          LET x == openid.exchanges[i] IN
          x.tokenOut # NoError
          => /\ x.pc = "done"
             /\ x.res = "rejected"
             /\ x.err.cls = "FailToGetOpenIdToken"
             /\ x.err.cause = (IF IsError(x.tokenOut) THEN x.tokenOut.cls
                               ELSE "Error")
             /\ x.fetchUrl = ""
             /\ x.fetchOut = "none")
  /\ [][\A i \in DOMAIN openid.exchanges :
          (openid.exchanges[i].pc = "openid"
           /\ openid'.exchanges[i].pc = "done")
          => /\ openid'.exchanges[i].tokenOut # NoError
             /\ openid'.sfuConfig = openid.sfuConfig
             /\ \A j \in DOMAIN openid'.exchanges :
                  openid'.exchanges[j].fetchUrl = openid.exchanges[j].fetchUrl]_vars

\* the token request for FocusF1 rejected with a value that is no Error:
\* the call rejected, nothing was posted, the error boundary is shown
C31_Witness ==
  \E i \in DOMAIN openid.exchanges :
    /\ openid.exchanges[i].focus = FocusF1
    /\ openid.exchanges[i].tokenOut = Err("NonError", 0)
    /\ openid.exchanges[i].res = "rejected"
    /\ openid.exchanges[i].fetchUrl = ""
    /\ openid.boundary.cls = "FailToGetOpenIdToken"

\* C32: a getSFUConfigWithOpenID call whose POST got a response that is not
\* ok, or whose fetch threw, has rejected with an error; and no call has
\* resolved without a config.
C32_Claim ==
  \A i \in DOMAIN openid.exchanges :
    LET x == openid.exchanges[i] IN
    /\ x.fetchOut \in {"status", "throw"}
       => x.res = "rejected" /\ x.err # NoError
    /\ x.res = "resolved" => x.value # Undef

\* C38: once no token exchange is pending and the exchange for the active
\* focus has delivered a config, the hook holds that config; with no active
\* focus it holds undefined.
C38_Claim ==
  (\A i \in DOMAIN openid.exchanges : openid.exchanges[i].pc = "done")
  => /\ openid.activeFocus = NoFocus => openid.sfuConfig = Undef
     /\ (/\ openid.activeFocus # NoFocus
         /\ openid.exchanges # <<>>
         /\ openid.exchanges[Len(openid.exchanges)].fetchOut = "ok")
        => openid.sfuConfig = JwtOf(openid.activeFocus)

\* C33: a leaveRTCSession call in widget mode that has ended has called
\* leaveRoomSession and sent HangupCall; it has sent Close exactly if the
\* cause is "user" and returnToLobby is not set, and has stopped the
\* transport exactly then.
C33_Claim ==
  (leave.widget /\ leave.pc = "done")
  => /\ Calls(leave.log, "leaveRoomSession") = 1
     /\ Calls(leave.log, "HangupCall") = 1
     /\ Calls(leave.log, "Close") = 1
        <=> (leave.cause = "user" /\ ~leave.returnToLobby)
     /\ Calls(leave.log, "stop") = 1
        <=> (leave.cause = "user" /\ ~leave.returnToLobby)

\* C39: leaveRoomSession is the first call; HangupCall is sent only when
\* promiseBeforeHangup is fulfilled or undefined; Close comes after
\* HangupCall and stop comes last, right after Close; and whether
\* setAlwaysOnScreen, HangupCall or Close succeed or fail, the step that
\* follows is the same.
C39_Theorem ==
  /\ [](LET log == leave.log IN
        /\ log[1] = "leaveRoomSession"
        /\ Calls(log, "leaveRoomSession") = 1
        /\ FirstAt(log, "HangupCall") > 0
           => leave.promiseBeforeHangup \in {"fulfilled", "none"}
        /\ FirstAt(log, "Close") > 0
           => /\ FirstAt(log, "HangupCall") > 0
              /\ FirstAt(log, "HangupCall") < FirstAt(log, "Close")
        /\ FirstAt(log, "stop") > 0
           => /\ FirstAt(log, "stop") = Len(log)
              /\ FirstAt(log, "Close") = Len(log) - 1)
  /\ [][/\ (leave.pc = "setAlwaysOnScreen" /\ leave'.pc # leave.pc)
           => leave'.pc = "promiseBeforeHangup"
        /\ (leave.pc = "HangupCall" /\ leave'.pc # leave.pc)
           => IF leave.cause = "user" /\ ~leave.returnToLobby
              THEN leave'.log = Append(leave.log, "Close")
              ELSE leave'.res = "resolved"
        /\ (leave.pc = "Close" /\ leave'.pc # leave.pc)
           => /\ leave'.log = Append(leave.log, "stop")
              /\ leave'.res = "resolved"]_vars

\* setAlwaysOnScreen, HangupCall and Close all failed, and every step was
\* taken all the same once the promise was fulfilled
C39_Witness ==
  /\ leave.errors = {"setAlwaysOnScreen", "HangupCall", "Close"}
  /\ leave.promiseBeforeHangup = "fulfilled"
  /\ leave.log = <<"leaveRoomSession", "setAlwaysOnScreen", "HangupCall",
                   "Close", "stop">>
  /\ leave.res = "resolved"

\* C34: joinRoomAfterInvite calls client.joinRoom at most 3 times; it goes
\* on to a retry only after a MatrixError M_FORBIDDEN; what it throws is the
\* error of its last joinRoom call, and it throws M_FORBIDDEN only once 3
\* calls have been made.
C34_Claim ==
  /\ Len(invite.calls) <= 3
  /\ invite.pc = "delay" => Len(invite.calls) < 3
  /\ invite.thrown = "MatrixError:M_FORBIDDEN" => Len(invite.calls) = 3

\* C35: after a press of space has called setMicrophoneMuted(false), no
\* further setMicrophoneMuted call is made while the key stays down and
\* the window keeps the focus, and once the key was released or the window
\* blurred, setMicrophoneMuted(true) has been called.
C35_Claim ==
  (ptt.calls # <<>> /\ ptt.calls[1] = FALSE)
  => /\ ~ptt.holdEnded => ptt.calls = <<FALSE>>
     /\ ptt.holdEnded => (Len(ptt.calls) >= 2 /\ ptt.calls[2] = TRUE)

\* C40: in every Initializer, Sentry.init and globalInit come after
\* Config.init and only with the config Loaded; resolve is called at most
\* once and only with config, sentry and openTelemetry all Loaded; and an
\* init() call made while an instance with a promise exists returns null
\* and leaves every instance as it is.
C40_Theorem ==
  /\ [](\A i \in DOMAIN initializer.instances :
          LET x == initializer.instances[i] IN
          /\ (x.sentry # "None" \/ x.openTelemetry # "None"
              \/ FirstAt(x.log, "Sentry.init") > 0
              \/ FirstAt(x.log, "globalInit") > 0)
             => /\ x.config = "Loaded"
                /\ x.log[1] = "Config.init"
          /\ x.resolves <= 1
          /\ Calls(x.log, "resolve") = x.resolves
          /\ Calls(x.log, "Config.init") <= 1
          /\ x.resolves = 1 => allDepsAreLoaded(x)
          /\ x.isInitialized => allDepsAreLoaded(x))
  /\ [][(/\ Len(initializer'.returned) = Len(initializer.returned) + 1
         /\ initializer.internalInstance # 0
         /\ initializer'.internalInstance # 0)
        => /\ initializer'.returned = Append(initializer.returned, "null")
           /\ initializer'.instances = initializer.instances
           /\ initializer'.internalInstance = initializer.internalInstance]_vars

\* init() was called twice: the second call returned null, and the one
\* instance has loaded the config, started Sentry and OpenTelemetry and
\* resolved its promise once
C40_Witness ==
  /\ initializer.returned = <<"promise", "null">>
  /\ Len(initializer.instances) = 1
  /\ initializer.instances[1].log =
       <<"Config.init", "Sentry.init", "globalInit", "resolve">>
  /\ initializer.instances[1].resolves = 1

====
